---------------------------- MODULE Spec2Model ----------------------------
(***************************************************************************)
(* A model of the smarttailor-api back office: the tenant directory with   *)
(* its subscription lifecycle (signup, status query, upgrade, payment      *)
(* initialisation and confirmation, administrator edits) and the           *)
(* tenant-scoped records (customers, orders, measurements, notifications)  *)
(* with their ownership filter, the deletion of accounts with the blobs    *)
(* their documents refer to, and the administrator's broadcasts.           *)
(*                                                                         *)
(* Time is counted in ticks since 2024-01-01 00:00 (local time, no         *)
(* daylight saving); a JavaScript Date is the tick count, and the Date     *)
(* setters are modelled through the calendar fields as ECMAScript's        *)
(* MakeDay does.  An absent (undefined) field is the empty sequence and a  *)
(* present one a one-element sequence.                                     *)
(***************************************************************************)
EXTENDS Integers, Sequences, FiniteSets, TLC

VARIABLES
    now,            \* the wall clock, in ticks
    users,          \* User collection: _id -> document
    customers,      \* Customer collection: _id -> document
    orders,         \* Order collection: _id -> document
    measurements,   \* Measurement collection: _id -> document
    notifications,  \* Notification collection: _id -> document
    flwConfigured,  \* whether the payment gateway keys are set in the environment
    tasks,          \* the handlers and job runs that have begun and not finished:
                    \* name -> position and locals
    createdBy,      \* history: <<collection, _id>> -> the tenant that created the document
    blobs,          \* the storage bucket: the keys of the objects it holds
    resp            \* the response to the request handled at this instant, if any

vars == <<now, users, customers, orders, measurements, notifications, flwConfigured, tasks,
          createdBy, blobs, resp>>

\* the tenant-scoped collections and what goes with them
records == <<customers, orders, measurements, notifications, createdBy>>

None == <<>>
Some(x) == <<x>>
Has(o) == o # <<>>
Val(o) == o[1]

-----------------------------------------------------------------------------
(* Bounds of the model *)

\* ticks per day: the resolution of the clock
TicksPerDay == 2
\* the longest paymentHistory the model follows
MaxHistory == 2
\* the number of documents the tenant-scoped collections hold together, and
\* the _ids a request names
MaxRecords == 2

-----------------------------------------------------------------------------
(* Calendar: what Date.prototype.getFullYear/getMonth/getDate and          *)
(* setDate/setMonth/setFullYear compute (months are 0-based)               *)

Years == 2024 .. 2028

IsLeap(y) == (y % 4 = 0 /\ y % 100 # 0) \/ y % 400 = 0

DaysInYear(y) == IF IsLeap(y) THEN 366 ELSE 365

DaysInMonth(y, m) ==
    CASE m = 1 -> IF IsLeap(y) THEN 29 ELSE 28
      [] m \in {3, 5, 8, 10} -> 30
      [] OTHER -> 31

RECURSIVE DayFromYear(_)
DayFromYear(y) == IF y <= 2024 THEN 0 ELSE DayFromYear(y - 1) + DaysInYear(y - 1)

RECURSIVE DayFromMonth(_, _)
DayFromMonth(y, m) ==
    IF m = 0 THEN DayFromYear(y) ELSE DayFromMonth(y, m - 1) + DaysInMonth(y, m - 1)

DayOf(t) == t \div TicksPerDay
TimeWithinDay(t) == t % TicksPerDay
MakeDate(day, time) == day * TicksPerDay + time

\* the calendar fields of every day of Years, computed once
YearOfDay ==
    [n \in 0 .. DayFromYear(2029) - 1 |->
        CHOOSE y \in Years : DayFromYear(y) <= n /\ n < DayFromYear(y + 1)]
MonthOfDay ==
    [n \in 0 .. DayFromYear(2029) - 1 |->
        CHOOSE m \in 0 .. 11 :
            /\ DayFromMonth(YearOfDay[n], m) <= n
            /\ n < DayFromMonth(YearOfDay[n], m) + DaysInMonth(YearOfDay[n], m)]
FirstOfMonth == [y \in 2024 .. 2029, m \in 0 .. 11 |-> DayFromMonth(y, m)]

\* ECMAScript MakeDay: a month past December and a date past the end of the
\* month roll over into the following year and month
MakeDay(y, m, d) == FirstOfMonth[y + (m \div 12), m % 12] + d - 1

getFullYear(t) == YearOfDay[DayOf(t)]
getMonth(t) == MonthOfDay[DayOf(t)]
getDate(t) == DayOf(t) - FirstOfMonth[getFullYear(t), getMonth(t)] + 1

setDate(t, d) == MakeDate(MakeDay(getFullYear(t), getMonth(t), d), TimeWithinDay(t))
setMonth(t, m) == MakeDate(MakeDay(getFullYear(t), m, getDate(t)), TimeWithinDay(t))
setFullYear(t, y) == MakeDate(MakeDay(y, getMonth(t), getDate(t)), TimeWithinDay(t))

\* the tick of a calendar date (month 1-based here, for readability)
At(y, month, d, time) == MakeDate(MakeDay(y, month - 1, d), time)


-----------------------------------------------------------------------------
(* Phone identifiers: a phone is a sequence of characters *)

Digit == {"0", "1", "2", "3", "4", "5", "6", "7", "8", "9"}

\* the phone of the administrator account
AdminPhone == <<"0", "8", "0", "6", "5", "5", "0", "9", "8", "6", "1">>
PhoneA == <<"0", "8", "0", "3", "0", "0", "0", "0", "0", "0", "1">>
PhoneB == <<"0", "8", "0", "3", "0", "0", "0", "0", "0", "0", "2">>
\* PhoneA as a client may send it, with punctuation
PhoneADashed == <<"0", "8", "0", "3", "-", "0", "0", "0", "-", "0", "0", "0", "1">>
\* ten digits only
PhoneShort == <<"0", "8", "0", "3", "0", "0", "0", "0", "0", "0">>

\* phone.replace(/\D/g, '')
phoneDigits(phone) == SelectSeq(phone, LAMBDA c : c \in Digit)

\* a request's phone parameter: absent, or one of the strings above

-----------------------------------------------------------------------------
(* The storage bucket *)

\* the keys of the objects the bucket can hold
BlobKeys == {"b1", "b2"}

\* the public URL of the object stored under a key: R2_PUBLIC_URL/key
Url(key) == <<"R2_PUBLIC_URL", key>>

\* deleteFromS3(fileUrl), with the bucket it leaves: nothing to do without
\* a URL; the key is what follows the public base; a DeleteObject that
\* fails (key in failing) is logged and never thrown
deleteFromS3(bucket, fileUrl, failing) ==
    IF ~Has(fileUrl) THEN bucket
    ELSE LET key == Val(fileUrl)[2] IN
         IF key \in failing THEN bucket ELSE bucket \ {key}

-----------------------------------------------------------------------------
(* The User collection *)

\* a comparison that accepts every password, against which C16 is tested
comparePasswordAlways(doc, candidate) == TRUE

\* the pre-save hook stores bcrypt.hash(password); comparePassword is
\* bcrypt.compare(candidate, stored)
hash(password) == <<"bcrypt", password>>
comparePassword(doc, candidate) == doc.password = hash(candidate)

\* the password every signup of the model sends, and the one createAdmin.js sets
SignupPassword == "secret1"
AdminPassword == "killbill1"

UserIds == {"u1", "u2"}
AdminId == "admin"

SubscriptionTypes == {"trial", "monthly", "quarterly", "yearly"}
PaidTiers == {"monthly", "quarterly", "yearly"}
SubscriptionStatuses == {"active", "expired", "cancelled"}

\* the document createAdmin.js stores
AdminUser ==
    [phone |-> AdminPhone, isAdmin |-> TRUE,
     subscriptionType |-> "yearly", subscriptionStatus |-> "active",
     trialStartDate |-> None, trialEndDate |-> None,
     subscriptionStartDate |-> None, subscriptionEndDate |-> None,
     pendingPayment |-> None, paymentHistory |-> <<>>, createdAt |-> 0,
     password |-> hash(AdminPassword), profileImage |-> None,
     pushNotificationEnabled |-> TRUE, pushNotificationToken |-> None]

\* a lookup that ignores the phone, against which C15 is tested
FindAnyUser(digits) ==
    IF DOMAIN users # {} THEN Some(CHOOSE id \in DOMAIN users : TRUE) ELSE None

\* User.findOne({ phone: digits }): the _id of the document, or None
FindUserByPhone(digits) ==
    IF \E id \in DOMAIN users : users[id].phone = digits
    THEN Some(CHOOSE id \in DOMAIN users : users[id].phone = digits)
    ELSE None

\* getUserFromPhone(phone) of the record routers: null for a missing phone
\* and for one that does not have 11 digits
getUserFromPhone(phone) ==
    IF ~Has(phone) THEN None
    ELSE IF Len(phoneDigits(Val(phone))) # 11 THEN None
    ELSE FindUserByPhone(phoneDigits(Val(phone)))

\* a response: the route, the HTTP status, the user the phone resolved to,
\* the collection and _id the request named, and the body (None on an error);
\* gateway: whether the payment gateway, asked by this request, reported a
\* successful transaction
Response(op, code, user, kind, id, body) ==
    [op |-> op, code |-> code, user |-> user, kind |-> kind, id |-> id, body |-> body,
     gateway |-> FALSE, request |-> None]

NoResponse == Response("", 0, None, "", None, None)

\* with(document, key, value)
Put(f, k, v) == [x \in DOMAIN f \cup {k} |-> IF x = k THEN v ELSE f[x]]
Drop(f, k) == [x \in DOMAIN f \ {k} |-> f[x]]

-----------------------------------------------------------------------------
(* POST /api/auth/signup *)

\* the 30-day trial window of a new tenant
TrialDays == 30

\* a trial of one calendar month, against which C10 is tested
NewTrialUserOneMonth(d, t) ==
    [phone |-> d, isAdmin |-> FALSE,
     subscriptionType |-> "trial", subscriptionStatus |-> "active",
     trialStartDate |-> Some(t),
     trialEndDate |-> Some(setMonth(t, getMonth(t) + 1)),
     subscriptionStartDate |-> None, subscriptionEndDate |-> None,
     pendingPayment |-> None, paymentHistory |-> <<>>, createdAt |-> t,
     password |-> hash(SignupPassword), profileImage |-> None,
     pushNotificationEnabled |-> TRUE, pushNotificationToken |-> None]

\* the document signup stores for phone digits d at time t
NewTrialUser(d, t) ==
    [phone |-> d, isAdmin |-> FALSE,
     subscriptionType |-> "trial", subscriptionStatus |-> "active",
     trialStartDate |-> Some(t),
     trialEndDate |-> Some(setDate(t, getDate(t) + TrialDays)),
     subscriptionStartDate |-> None, subscriptionEndDate |-> None,
     pendingPayment |-> None, paymentHistory |-> <<>>, createdAt |-> t,
     password |-> hash(SignupPassword), profileImage |-> None,
     pushNotificationEnabled |-> TRUE, pushNotificationToken |-> None]

\* the _id of a new user document: an ObjectId says nothing but which
\* document it is, and no two users share a phone, so the model names the
\* document of PhoneA "u1" and any other "u2"
NewUserId(digits) == IF digits = PhoneA THEN "u1" ELSE "u2"

PostSignup(phone) ==
    /\ IF ~Has(phone) \/ Len(phoneDigits(Val(phone))) # 11
       THEN /\ resp' = Response("signup", 400, None, "users", None, None)
            /\ UNCHANGED users
       ELSE IF Has(FindUserByPhone(phoneDigits(Val(phone))))
       THEN /\ resp' = Response("signup", 400, None, "users", None, None)
            /\ UNCHANGED users
       ELSE LET id == NewUserId(phoneDigits(Val(phone)))
                doc == NewTrialUser(phoneDigits(Val(phone)), now) IN
            /\ users' = Put(users, id, doc)
            /\ resp' = Response("signup", 201, Some(id), "users", Some(id), Some(doc))
    /\ UNCHANGED <<now, records, flwConfigured, tasks, blobs>>

-----------------------------------------------------------------------------
(* GET /api/subscription/status *)

\* Math.ceil(a / b) for b > 0
Ceil(a, b) == -((-a) \div b)

Max(a, b) == IF a >= b THEN a ELSE b

\* the initialisation of a document without a subscriptionType (the schema
\* default gives every document one): a trial of 30 days from createdAt
InitialiseSubscription(u, t) ==
    IF u.subscriptionType = ""
    THEN [u EXCEPT !.subscriptionType = "trial", !.subscriptionStatus = "active",
                   !.trialStartDate = Some(u.createdAt),
                   !.trialEndDate =
                       Some(setDate(u.createdAt, getDate(u.createdAt) + TrialDays))]
    ELSE u

\* an expiry check that does not ask for an active status, against which C9
\* is tested
ExpiryCheckAnyStatus(u, t) ==
    IF u.subscriptionType = "trial" /\ Has(u.trialEndDate) /\ t > Val(u.trialEndDate)
    THEN "expired"
    ELSE IF u.subscriptionType # "trial" /\ Has(u.subscriptionEndDate)
            /\ t > Val(u.subscriptionEndDate)
    THEN "expired"
    ELSE u.subscriptionStatus

\* the status the route answers with: the stored one (active when unset),
\* or expired once the end date of an active subscription has passed
ExpiryCheck(u, t) ==
    LET stored == IF u.subscriptionStatus = "" THEN "active" ELSE u.subscriptionStatus
        afterTrial ==
            IF u.subscriptionType = "trial" /\ Has(u.trialEndDate)
                 /\ t > Val(u.trialEndDate) /\ stored = "active"
            THEN "expired" ELSE stored
    IN  IF u.subscriptionType # "trial" /\ Has(u.subscriptionEndDate)
             /\ t > Val(u.subscriptionEndDate) /\ afterTrial = "active"
        THEN "expired" ELSE afterTrial

\* the document after the query: user.subscriptionStatus is assigned and
\* saved only where the check turned an active status into expired
StatusWrite(u, t) ==
    LET v == InitialiseSubscription(u, t)
        stored == IF v.subscriptionStatus = "" THEN "active" ELSE v.subscriptionStatus
    IN  IF ExpiryCheck(v, t) # stored
        THEN [v EXCEPT !.subscriptionStatus = ExpiryCheck(v, t)]
        ELSE v

\* the days to the end date without the Math.max(0, ...), against which C8 is
\* tested
daysRemainingUnclamped(u, t) ==
    IF Has(u.trialEndDate)
    THEN Ceil(Val(u.trialEndDate) - t, TicksPerDay)
    ELSE IF Has(u.subscriptionEndDate)
    THEN Ceil(Val(u.subscriptionEndDate) - t, TicksPerDay)
    ELSE 0

daysRemaining(u, t) ==
    IF Has(u.trialEndDate)
    THEN Max(0, Ceil(Val(u.trialEndDate) - t, TicksPerDay))
    ELSE IF Has(u.subscriptionEndDate)
    THEN Max(0, Ceil(Val(u.subscriptionEndDate) - t, TicksPerDay))
    ELSE 0

StatusBody(u, t) ==
    LET v == StatusWrite(u, t) IN
    [subscriptionType |-> v.subscriptionType,
     subscriptionStatus |-> ExpiryCheck(InitialiseSubscription(u, t), t),
     trialStartDate |-> v.trialStartDate, trialEndDate |-> v.trialEndDate,
     subscriptionStartDate |-> v.subscriptionStartDate,
     subscriptionEndDate |-> v.subscriptionEndDate,
     daysRemaining |-> daysRemaining(v, t)]

GetSubscriptionStatus(phone) ==
    /\ IF ~Has(phone) \/ Len(phoneDigits(Val(phone))) # 11
       THEN /\ resp' = Response("status", 400, None, "users", None, None)
            /\ UNCHANGED users
       ELSE LET found == FindUserByPhone(phoneDigits(Val(phone))) IN
            IF ~Has(found)
            THEN /\ resp' = Response("status", 404, None, "users", None, None)
                 /\ UNCHANGED users
            ELSE LET id == Val(found) IN
                 /\ users' = [users EXCEPT ![id] = StatusWrite(users[id], now)]
                 /\ resp' = Response("status", 200, found, "users", found,
                                     Some(StatusBody(users[id], now)))
    /\ UNCHANGED <<now, records, flwConfigured, tasks, blobs>>

-----------------------------------------------------------------------------
(* POST /api/subscription/upgrade *)

\* months of 30 days and a year of 365, against which C7 is tested
TierEndDateInDays(tier, t) ==
    CASE tier = "monthly" -> t + 30 * TicksPerDay
      [] tier = "quarterly" -> t + 90 * TicksPerDay
      [] tier = "yearly" -> t + 365 * TicksPerDay
      [] OTHER -> t

\* the end date of a paid tier that starts at t: setMonth(getMonth() + 1),
\* setMonth(getMonth() + 3), setFullYear(getFullYear() + 1); any other type
\* leaves the end date at t
TierEndDate(tier, t) ==
    CASE tier = "monthly" -> setMonth(t, getMonth(t) + 1)
      [] tier = "quarterly" -> setMonth(t, getMonth(t) + 3)
      [] tier = "yearly" -> setFullYear(t, getFullYear(t) + 1)
      [] OTHER -> t

\* the fields both the upgrade and the payment callback assign
ActivateTier(u, tier, t) ==
    [u EXCEPT !.subscriptionType = tier, !.subscriptionStatus = "active",
              !.subscriptionStartDate = Some(t),
              !.subscriptionEndDate = Some(TierEndDate(tier, t)),
              !.trialStartDate = None, !.trialEndDate = None]

\* tier is "" when the body has no subscriptionType
PostSubscriptionUpgrade(phone, tier) ==
    /\ IF ~Has(phone) \/ tier = "" \/ tier \notin PaidTiers
            \/ Len(phoneDigits(Val(phone))) # 11
       THEN /\ resp' = Response("upgrade", 400, None, "users", None, None)
            /\ UNCHANGED users
       ELSE LET found == FindUserByPhone(phoneDigits(Val(phone))) IN
            IF ~Has(found)
            THEN /\ resp' = Response("upgrade", 404, None, "users", None, None)
                 /\ UNCHANGED users
            ELSE LET id == Val(found)
                     doc == ActivateTier(users[id], tier, now) IN
                 /\ users' = [users EXCEPT ![id] = doc]
                 /\ resp' = Response("upgrade", 200, found, "users", found, Some(doc))
    /\ UNCHANGED <<now, records, flwConfigured, tasks, blobs>>

-----------------------------------------------------------------------------
(* POST /api/payment/initialize and GET /api/payment/callback *)

\* transaction references ST-<time>-<random>
TxRefs == {"ST-1", "ST-2"}
Amounts == {5000}

\* what the gateway answers to POST /payments
InitOutcomes == {"success", "error", "throw"}

PostPaymentInitialize(phone, tier, amount, txRef, outcome) ==
    /\ IF ~flwConfigured
       THEN /\ resp' = Response("initialize", 500, None, "users", None, None)
            /\ UNCHANGED users
       ELSE IF ~Has(phone) \/ tier = "" \/ Len(phoneDigits(Val(phone))) # 11
       THEN /\ resp' = Response("initialize", 400, None, "users", None, None)
            /\ UNCHANGED users
       ELSE LET found == FindUserByPhone(phoneDigits(Val(phone))) IN
            IF ~Has(found)
            THEN /\ resp' = Response("initialize", 404, None, "users", None, None)
                 /\ UNCHANGED users
            ELSE IF outcome = "throw"
            THEN /\ resp' = Response("initialize", 500, found, "users", None, None)
                 /\ UNCHANGED users
            ELSE IF outcome = "error"
            THEN /\ resp' = Response("initialize", 400, found, "users", None, None)
                 /\ UNCHANGED users
            ELSE LET id == Val(found) IN
                 /\ users' = [users EXCEPT ![id].pendingPayment =
                                  Some([txRef |-> txRef, subscriptionType |-> tier,
                                        amount |-> amount, createdAt |-> now])]
                 /\ resp' = Response("initialize", 200, found, "users", found,
                                     Some([txRef |-> txRef]))
    /\ UNCHANGED <<now, records, flwConfigured, tasks, blobs>>

\* what the verification call produces: the fetch throws, or the gateway
\* answers {status, data: {status, customer.phonenumber || meta.phone,
\* meta.subscriptionType, amount}}
VerifyThrows == [threw |-> TRUE, status |-> "", data |-> None]
VerifyAnswer(status, data) == [threw |-> FALSE, status |-> status, data |-> data]
Transaction(status, phone, tier, amount) ==
    [status |-> status, phone |-> phone, subscriptionType |-> tier, amount |-> amount]

TransactionStatuses == {"successful", "failed", "pending", "cancelled"}

\* the types a transaction's meta may carry: the initialisation stores any
\* non-empty string the client sent ("weekly" stands for one the schema
\* rejects); "" is a meta without subscriptionType
MetaTypes == PaidTiers \cup {"weekly", ""}

\* the answers of the verification call: it throws, it answers without data,
\* it answers with an unsuccessful transaction, it answers "error" with a
\* successful one, or it answers with a successful transaction of any
\* phone and type
VerifyResults ==
    {VerifyThrows, VerifyAnswer("error", None),
     VerifyAnswer("error", Some(Transaction("successful", Some(PhoneA), "monthly", 5000)))}
    \cup {VerifyAnswer("success", Some(Transaction(ts, Some(PhoneA), "monthly", 5000))) :
            ts \in TransactionStatuses \ {"successful"}}
    \cup {VerifyAnswer("success", Some(Transaction("successful", ph, ty, am))) :
            ph \in {None, Some(PhoneADashed), Some(PhoneB)}, ty \in MetaTypes,
            am \in Amounts}

\* a check that accepts every transaction that has not failed, against which
\* C6 is tested
VerifiedNotFailed(v) ==
    /\ ~v.threw
    /\ v.status = "success"
    /\ Has(v.data)
    /\ Val(v.data).status # "failed"

\* verificationResponse.status === 'success' && verificationResponse.data
\*   && transactionStatus === 'successful'
VerifiedSuccessful(v) ==
    /\ ~v.threw
    /\ v.status = "success"
    /\ Has(v.data)
    /\ Val(v.data).status = "successful"

\* the paymentHistory entry the callback pushes
HistoryEntry(txRef, transactionId, transaction, t) ==
    [txRef |-> txRef, transactionId |-> transactionId, amount |-> transaction.amount,
     subscriptionType |-> transaction.subscriptionType, status |-> "successful",
     paidAt |-> t]

\* the document the callback saves for a verified transaction
ApplyPayment(u, txRef, transactionId, transaction, t) ==
    [ActivateTier(u, transaction.subscriptionType, t) EXCEPT
        !.pendingPayment = None,
        !.paymentHistory = Append(u.paymentHistory,
                                  HistoryEntry(txRef, transactionId, transaction, t))]

\* the payment-result page: success, paymentStatus, txRef and, on a success,
\* subscriptionType and amount ("" and None where the page has none)
ResultPage(success, paymentStatus, txRef, subscriptionType, amount) ==
    [success |-> success, paymentStatus |-> paymentStatus, txRef |-> txRef,
     subscriptionType |-> subscriptionType, amount |-> amount]

ErrorPage(paymentStatus, txRef) == ResultPage(FALSE, paymentStatus, txRef, "", None)

\* whether the gateway's answer says that the transaction succeeded: the
\* request's side of the exchange, kept with the response
GatewayReportsSuccessful(v) ==
    /\ ~v.threw
    /\ Has(v.data)
    /\ Val(v.data).status = "successful"

\* what the callback does: save is None or the <<_id, document>> it saves,
\* page is the page it renders
CallbackOutcome(txRef, transactionId, status, v) ==
    IF ~flwConfigured
    THEN [save |-> None, page |-> ErrorPage("", None)]
    ELSE IF ~Has(txRef)
    THEN [save |-> None, page |-> ErrorPage("error", None)]
    ELSE IF status = "cancelled"
    THEN [save |-> None, page |-> ErrorPage("cancelled", txRef)]
    ELSE IF v.threw
    THEN [save |-> None, page |-> ErrorPage("error", txRef)]
    ELSE IF VerifiedSuccessful(v)
    THEN LET transaction == Val(v.data) IN
         IF ~Has(transaction.phone) \/ transaction.subscriptionType = ""
         THEN [save |-> None, page |-> ErrorPage("error", txRef)]
         ELSE LET found == FindUserByPhone(phoneDigits(Val(transaction.phone))) IN
              IF ~Has(found)
              THEN [save |-> None, page |-> ErrorPage("error", txRef)]
              ELSE IF transaction.subscriptionType \notin SubscriptionTypes
              THEN \* user.save() rejects the type and the catch block answers
                   [save |-> None, page |-> ErrorPage("error", txRef)]
              ELSE [save |-> Some(<<Val(found),
                                    ApplyPayment(users[Val(found)], Val(txRef),
                                                 transactionId, transaction, now)>>),
                    page |-> ResultPage(TRUE, "successful", txRef,
                                        transaction.subscriptionType,
                                        Some(transaction.amount))]
    ELSE IF Has(v.data) /\ Val(v.data).status \in {"failed", "unsuccessful"}
    THEN [save |-> None, page |-> ErrorPage("failed", txRef)]
    ELSE [save |-> None, page |-> ErrorPage("pending", txRef)]

\* txRef and transactionId are None when the query lacks them; status is the
\* query's status parameter ("" when absent); v is what the verification
\* call produces
GetPaymentCallback(txRef, transactionId, status, v) ==
    LET outcome == CallbackOutcome(txRef, transactionId, status, v) IN
    /\ IF Has(outcome.save)
       THEN users' = [users EXCEPT ![Val(outcome.save)[1]] = Val(outcome.save)[2]]
       ELSE UNCHANGED users
    /\ resp' = [Response("callback", 200,
                         IF Has(outcome.save) THEN Some(Val(outcome.save)[1]) ELSE None,
                         "users", None, Some(outcome.page))
                    EXCEPT !.gateway = GatewayReportsSuccessful(v)]
    /\ UNCHANGED <<now, records, flwConfigured, tasks, blobs>>

-----------------------------------------------------------------------------
(* The administrator routes *)

\* the isAdmin middleware: 0 when the request may proceed, or the status
\* it answers with
isAdmin(phone) ==
    IF ~Has(phone) THEN 400
    ELSE IF Len(phoneDigits(Val(phone))) # 11 THEN 400
    ELSE LET found == FindUserByPhone(phoneDigits(Val(phone))) IN
         IF ~Has(found) \/ ~users[Val(found)].isAdmin THEN 403 ELSE 0

\* the body of PUT /users/:id/subscription: "" and None are absent fields
SubscriptionBody(type, status, startDate, endDate) ==
    [subscriptionType |-> type, subscriptionStatus |-> status,
     subscriptionStartDate |-> startDate, subscriptionEndDate |-> endDate]

\* the end date computed when the type changes and the body gives none:
\* endDate is new Date() and only one of its fields is set from startDate
ComputedEndDate(type, startDate, t) ==
    CASE type = "trial" -> setDate(t, getDate(startDate) + TrialDays)
      [] type = "monthly" -> setMonth(t, getMonth(startDate) + 1)
      [] type = "quarterly" -> setMonth(t, getMonth(startDate) + 3)
      [] type = "yearly" -> setFullYear(t, getFullYear(startDate) + 1)
      [] OTHER -> t

\* the document PUT /users/:id/subscription saves
AdminSubscriptionUpdate(u, body, t) ==
    IF body.subscriptionType # "" /\ body.subscriptionType # u.subscriptionType
    THEN LET startDate == IF Has(body.subscriptionStartDate)
                          THEN Val(body.subscriptionStartDate) ELSE t
             endDate == IF Has(body.subscriptionEndDate)
                        THEN Val(body.subscriptionEndDate)
                        ELSE ComputedEndDate(body.subscriptionType, startDate, t)
             typed == [u EXCEPT !.subscriptionType = body.subscriptionType]
             dated ==
                 IF body.subscriptionType = "trial"
                 THEN [typed EXCEPT !.trialStartDate = Some(startDate),
                                    !.trialEndDate = Some(endDate),
                                    !.subscriptionStartDate = None,
                                    !.subscriptionEndDate = None]
                 ELSE IF Has(body.subscriptionEndDate)
                         \/ body.subscriptionType \in PaidTiers
                 THEN [typed EXCEPT !.subscriptionStartDate = Some(startDate),
                                    !.subscriptionEndDate = Some(endDate),
                                    !.trialStartDate = None,
                                    !.trialEndDate = None]
                 ELSE typed
         IN  IF body.subscriptionStatus = ""
             THEN [dated EXCEPT !.subscriptionStatus = "active"]
             ELSE dated
    ELSE [u EXCEPT
            !.subscriptionStatus =
                IF body.subscriptionStatus # "" THEN body.subscriptionStatus ELSE @,
            !.subscriptionStartDate =
                IF Has(body.subscriptionStartDate) THEN body.subscriptionStartDate ELSE @,
            !.subscriptionEndDate =
                IF Has(body.subscriptionEndDate) THEN body.subscriptionEndDate ELSE @]

\* the schema's enum validators, run by save()
ValidUser(u) ==
    /\ u.subscriptionType \in SubscriptionTypes
    /\ u.subscriptionStatus \in SubscriptionStatuses

PutAdminUserSubscription(phone, id, body) ==
    /\ IF isAdmin(phone) # 0
       THEN /\ resp' = Response("adminSubscription", isAdmin(phone), None, "users",
                                Some(id), None)
            /\ UNCHANGED users
       ELSE IF id \notin DOMAIN users
       THEN /\ resp' = Response("adminSubscription", 404, None, "users", Some(id), None)
            /\ UNCHANGED users
       ELSE LET doc == AdminSubscriptionUpdate(users[id], body, now) IN
            IF ~ValidUser(doc)
            THEN /\ resp' = Response("adminSubscription", 400, None, "users",
                                     Some(id), None)
                 /\ UNCHANGED users
            ELSE /\ users' = [users EXCEPT ![id] = doc]
                 /\ resp' = [Response("adminSubscription", 200, None, "users",
                                      Some(id), Some(doc))
                                EXCEPT !.request = Some(body)]
    /\ UNCHANGED <<now, records, flwConfigured, tasks, blobs>>

\* findOneAndUpdate / findByIdAndUpdate with a plain object: every path of
\* the schema the body names is set to the body's value
UpdateFields(doc, body) ==
    [f \in DOMAIN doc |-> IF f \in DOMAIN body THEN body[f] ELSE doc[f]]

\* PUT /api/admin/users/:id: the body without its phone
PutAdminUser(phone, id, body) ==
    /\ IF isAdmin(phone) # 0
       THEN /\ resp' = Response("adminUser", isAdmin(phone), None, "users", Some(id), None)
            /\ UNCHANGED users
       ELSE IF id \notin DOMAIN users
       THEN /\ resp' = Response("adminUser", 404, None, "users", Some(id), None)
            /\ UNCHANGED users
       ELSE LET doc == UpdateFields(users[id], Drop(body, "phone")) IN
            IF ~ValidUser(doc)
            THEN /\ resp' = Response("adminUser", 400, None, "users", Some(id), None)
                 /\ UNCHANGED users
            ELSE /\ users' = [users EXCEPT ![id] = doc]
                 /\ resp' = Response("adminUser", 200, None, "users", Some(id), Some(doc))
    /\ UNCHANGED <<now, records, flwConfigured, tasks, blobs>>

-----------------------------------------------------------------------------
(* PUT /api/auth/me *)

\* the update bodies the model sends to PUT /me and PUT /admin/users/:id
UserBodies ==
    {<<>>,
     [subscriptionStatus |-> "active"],
     [subscriptionStatus |-> "cancelled"],
     [phone |-> PhoneB, subscriptionStatus |-> "suspended"]}

PutMe(phone, body) ==
    /\ IF ~Has(phone) \/ Len(phoneDigits(Val(phone))) # 11
       THEN /\ resp' = Response("me", 400, None, "users", None, None)
            /\ UNCHANGED users
       ELSE LET found == FindUserByPhone(phoneDigits(Val(phone))) IN
            IF ~Has(found)
            THEN /\ resp' = Response("me", 404, None, "users", None, None)
                 /\ UNCHANGED users
            ELSE LET id == Val(found)
                     doc == UpdateFields(users[id], Drop(Drop(body, "password"), "phone"))
                 IN  IF ~ValidUser(doc)
                     THEN /\ resp' = Response("me", 400, found, "users", found, None)
                          /\ UNCHANGED users
                     ELSE /\ users' = [users EXCEPT ![id] = doc]
                          /\ resp' = Response("me", 200, found, "users", found, Some(doc))
    /\ UNCHANGED <<now, records, flwConfigured, tasks, blobs>>

-----------------------------------------------------------------------------
(* PUT /api/auth/settings *)

\* the push settings of the body that are not undefined
PutSettings(phone, pushNotificationEnabled, pushNotificationToken) ==
    /\ IF ~Has(phone) \/ Len(phoneDigits(Val(phone))) # 11
       THEN /\ resp' = Response("settings", 400, None, "users", None, None)
            /\ UNCHANGED users
       ELSE LET found == FindUserByPhone(phoneDigits(Val(phone))) IN
            IF ~Has(found)
            THEN /\ resp' = Response("settings", 404, None, "users", None, None)
                 /\ UNCHANGED users
            ELSE LET id == Val(found)
                     doc == [users[id] EXCEPT
                                !.pushNotificationEnabled =
                                    IF Has(pushNotificationEnabled)
                                    THEN Val(pushNotificationEnabled) ELSE @,
                                !.pushNotificationToken =
                                    IF Has(pushNotificationToken)
                                    THEN pushNotificationToken ELSE @]
                 IN  /\ users' = [users EXCEPT ![id] = doc]
                     /\ resp' = Response("settings", 200, found, "users", found, Some(doc))
    /\ UNCHANGED <<now, records, flwConfigured, tasks, blobs>>

-----------------------------------------------------------------------------
(* The tenant-scoped collections: customers, orders, measurements and      *)
(* notifications. A document's _id is a number from 1; the customerId 0 is *)
(* an absent one. populate() is left out of the responses.                 *)

RecordIds == 1 .. MaxRecords

\* a lookup by _id alone, against which C1 is tested
FindById(coll, id, userId) ==
    IF id \in DOMAIN coll THEN Some(id) ELSE None

\* findOne({ _id: id, userId: userId }) on a collection
FindOwned(coll, id, userId) ==
    IF id \in DOMAIN coll /\ coll[id].userId = userId THEN Some(id) ELSE None

\* how every by-id handler begins: 400 without a phone, 404 for an unknown
\* user, 404 when no document has both the _id and the caller's userId
ById(coll, phone, id) ==
    IF ~Has(phone) THEN [code |-> 400, user |-> None]
    ELSE LET user == getUserFromPhone(phone) IN
         IF ~Has(user) THEN [code |-> 404, user |-> None]
         ELSE IF ~Has(FindOwned(coll, id, Val(user))) THEN [code |-> 404, user |-> user]
         ELSE [code |-> 200, user |-> user]

\* how every create handler begins
Caller(phone) ==
    IF ~Has(phone) THEN [code |-> 400, user |-> None]
    ELSE LET user == getUserFromPhone(phone) IN
         IF ~Has(user) THEN [code |-> 404, user |-> None]
         ELSE [code |-> 201, user |-> user]

\* new Model({ ...data, userId: user._id }): the schema's paths, from the
\* body where it has them, and the caller as userId
NewDocument(defaults, body, userId) ==
    [UpdateFields(defaults, body) EXCEPT !.userId = userId]

\* the _id of a new document of a collection
NewRecordId(coll) ==
    IF RecordIds \subseteq DOMAIN coll THEN 0
    ELSE CHOOSE id \in RecordIds \ DOMAIN coll :
            \A other \in RecordIds \ DOMAIN coll : id <= other

RecordCount ==
    Cardinality(DOMAIN customers) + Cardinality(DOMAIN orders)
        + Cardinality(DOMAIN measurements) + Cardinality(DOMAIN notifications)

(* customers *)

CustomerDefaults == [userId |-> "", name |-> "", photo |-> None]

GetCustomer(phone, id) ==
    LET found == ById(customers, phone, id) IN
    /\ resp' = Response("getCustomer", found.code, found.user, "customers", Some(id),
                        IF found.code = 200 THEN Some(customers[id]) ELSE None)
    /\ UNCHANGED <<now, users, records, flwConfigured, tasks, blobs>>

PostCustomer(phone, body) ==
    LET caller == Caller(phone)
        id == NewRecordId(customers)
        doc == NewDocument(CustomerDefaults, Drop(body, "userId"),
                           IF Has(caller.user) THEN Val(caller.user) ELSE "")
    IN  /\ IF caller.code # 201
           THEN /\ resp' = Response("postCustomer", caller.code, None, "customers",
                                    None, None)
                /\ UNCHANGED <<customers, createdBy>>
           ELSE IF doc.name = ""
           THEN /\ resp' = Response("postCustomer", 400, caller.user, "customers",
                                    None, None)
                /\ UNCHANGED <<customers, createdBy>>
           ELSE /\ id \in RecordIds
                /\ customers' = Put(customers, id, doc)
                /\ createdBy' = Put(createdBy, <<"customers", id>>, Val(caller.user))
                /\ resp' = Response("postCustomer", 201, caller.user, "customers",
                                    Some(id), Some(doc))
        /\ UNCHANGED <<now, users, orders, measurements, notifications, flwConfigured, tasks, blobs>>

PutCustomer(phone, id, body) ==
    LET found == ById(customers, phone, id)
        doc == UpdateFields(customers[id], Drop(body, "userId"))
    IN  /\ IF found.code # 200
           THEN /\ resp' = Response("putCustomer", found.code, found.user, "customers",
                                    Some(id), None)
                /\ UNCHANGED customers
           ELSE /\ customers' = [customers EXCEPT ![id] = doc]
                /\ resp' = Response("putCustomer", 200, found.user, "customers",
                                    Some(id), Some(doc))
        /\ UNCHANGED <<now, users, orders, measurements, notifications, createdBy,
                       flwConfigured, tasks, blobs>>

DeleteCustomer(phone, id) ==
    LET found == ById(customers, phone, id) IN
    /\ IF found.code # 200
       THEN UNCHANGED <<customers, createdBy>>
       ELSE /\ customers' = Drop(customers, id)
            /\ createdBy' = Drop(createdBy, <<"customers", id>>)
    /\ resp' = Response("deleteCustomer", found.code, found.user, "customers",
                        Some(id), None)
    /\ UNCHANGED <<now, users, orders, measurements, notifications, flwConfigured, tasks, blobs>>

(* orders *)

OrderDefaults ==
    [userId |-> "", customerId |-> 0, amountCharged |-> 0, amountPaid |-> 0,
     balance |-> 0, stylePictures |-> <<>>, sketches |-> <<>>, status |-> "pending",
     createdAt |-> 0]

GetOrder(phone, id) ==
    LET found == ById(orders, phone, id) IN
    /\ resp' = Response("getOrder", found.code, found.user, "orders", Some(id),
                        IF found.code = 200 THEN Some(orders[id]) ELSE None)
    /\ UNCHANGED <<now, users, records, flwConfigured, tasks, blobs>>

\* GET /api/orders/customer/:customerId: 403 unless the customer is the
\* caller's, then the caller's orders for that customer
GetOrdersByCustomer(phone, customerId) ==
    LET caller == Caller(phone) IN
    /\ IF caller.code # 201
       THEN resp' = Response("getOrdersByCustomer", caller.code, None, "customers",
                             Some(customerId), None)
       ELSE IF ~Has(FindOwned(customers, customerId, Val(caller.user)))
       THEN resp' = Response("getOrdersByCustomer", 403, caller.user, "customers",
                             Some(customerId), None)
       ELSE resp' = Response("getOrdersByCustomer", 200, caller.user, "customers",
                             Some(customerId),
                             Some({id \in DOMAIN orders :
                                    /\ orders[id].customerId = customerId
                                    /\ orders[id].userId = Val(caller.user)}))
    /\ UNCHANGED <<now, users, records, flwConfigured, tasks, blobs>>

PostOrder(phone, body) ==
    LET caller == Caller(phone)
        id == NewRecordId(orders)
        doc == [NewDocument(OrderDefaults, body,
                            IF Has(caller.user) THEN Val(caller.user) ELSE "")
                    EXCEPT !.createdAt = now]
    IN  /\ IF caller.code # 201
           THEN /\ resp' = Response("postOrder", caller.code, None, "orders", None, None)
                /\ UNCHANGED <<orders, createdBy>>
           ELSE IF doc.customerId # 0
                   /\ ~Has(FindOwned(customers, doc.customerId, Val(caller.user)))
           THEN /\ resp' = Response("postOrder", 403, caller.user, "orders", None, None)
                /\ UNCHANGED <<orders, createdBy>>
           ELSE IF doc.customerId = 0
           THEN /\ resp' = Response("postOrder", 400, caller.user, "orders", None, None)
                /\ UNCHANGED <<orders, createdBy>>
           ELSE /\ id \in RecordIds
                /\ orders' = Put(orders, id, doc)
                /\ createdBy' = Put(createdBy, <<"orders", id>>, Val(caller.user))
                /\ resp' = Response("postOrder", 201, caller.user, "orders", Some(id),
                                    Some(doc))
        /\ UNCHANGED <<now, users, customers, measurements, notifications,
                       flwConfigured, tasks, blobs>>

PutOrderMarkPaid(phone, id) ==
    LET found == ById(orders, phone, id)
        doc == [orders[id] EXCEPT !.amountPaid = orders[id].amountCharged,
                                  !.balance = 0]
    IN  /\ IF found.code # 200
           THEN /\ resp' = Response("markPaid", found.code, found.user, "orders",
                                    Some(id), None)
                /\ UNCHANGED orders
           ELSE /\ orders' = [orders EXCEPT ![id] = doc]
                /\ resp' = Response("markPaid", 200, found.user, "orders", Some(id),
                                    Some(doc))
        /\ UNCHANGED <<now, users, customers, measurements, notifications, createdBy,
                       flwConfigured, tasks, blobs>>

PutOrder(phone, id, body) ==
    LET found == ById(orders, phone, id)
        doc == UpdateFields(orders[id], body)
    IN  /\ IF found.code # 200
           THEN /\ resp' = Response("putOrder", found.code, found.user, "orders",
                                    Some(id), None)
                /\ UNCHANGED orders
           ELSE IF /\ "customerId" \in DOMAIN body
                   /\ body.customerId # 0
                   /\ body.customerId # orders[id].customerId
                   /\ ~Has(FindOwned(customers, body.customerId, Val(found.user)))
           THEN /\ resp' = Response("putOrder", 403, found.user, "orders", Some(id), None)
                /\ UNCHANGED orders
           ELSE /\ orders' = [orders EXCEPT ![id] = doc]
                /\ resp' = Response("putOrder", 200, found.user, "orders", Some(id),
                                    Some(doc))
        /\ UNCHANGED <<now, users, customers, measurements, notifications, createdBy,
                       flwConfigured, tasks, blobs>>

DeleteOrder(phone, id) ==
    LET found == ById(orders, phone, id) IN
    /\ IF found.code # 200
       THEN UNCHANGED <<orders, createdBy>>
       ELSE /\ orders' = Drop(orders, id)
            /\ createdBy' = Drop(createdBy, <<"orders", id>>)
    /\ resp' = Response("deleteOrder", found.code, found.user, "orders", Some(id), None)
    /\ UNCHANGED <<now, users, customers, measurements, notifications, flwConfigured, tasks, blobs>>

(* measurements *)

MeasurementDefaults ==
    [userId |-> "", customerId |-> 0, category |-> "", photoReference |-> None]

GetMeasurement(phone, id) ==
    LET found == ById(measurements, phone, id) IN
    /\ resp' = Response("getMeasurement", found.code, found.user, "measurements",
                        Some(id),
                        IF found.code = 200 THEN Some(measurements[id]) ELSE None)
    /\ UNCHANGED <<now, users, records, flwConfigured, tasks, blobs>>

PostMeasurement(phone, body) ==
    LET caller == Caller(phone)
        id == NewRecordId(measurements)
        doc == NewDocument(MeasurementDefaults, body,
                           IF Has(caller.user) THEN Val(caller.user) ELSE "")
    IN  /\ IF caller.code # 201
           THEN /\ resp' = Response("postMeasurement", caller.code, None, "measurements",
                                    None, None)
                /\ UNCHANGED <<measurements, createdBy>>
           ELSE IF doc.customerId = 0 \/ doc.category = ""
           THEN /\ resp' = Response("postMeasurement", 400, caller.user, "measurements",
                                    None, None)
                /\ UNCHANGED <<measurements, createdBy>>
           ELSE /\ id \in RecordIds
                /\ measurements' = Put(measurements, id, doc)
                /\ createdBy' = Put(createdBy, <<"measurements", id>>, Val(caller.user))
                /\ resp' = Response("postMeasurement", 201, caller.user, "measurements",
                                    Some(id), Some(doc))
        /\ UNCHANGED <<now, users, customers, orders, notifications, flwConfigured, tasks, blobs>>

PutMeasurement(phone, id, body) ==
    LET found == ById(measurements, phone, id)
        doc == UpdateFields(measurements[id], body)
    IN  /\ IF found.code # 200
           THEN /\ resp' = Response("putMeasurement", found.code, found.user,
                                    "measurements", Some(id), None)
                /\ UNCHANGED measurements
           ELSE /\ measurements' = [measurements EXCEPT ![id] = doc]
                /\ resp' = Response("putMeasurement", 200, found.user, "measurements",
                                    Some(id), Some(doc))
        /\ UNCHANGED <<now, users, customers, orders, notifications, createdBy,
                       flwConfigured, tasks, blobs>>

DeleteMeasurement(phone, id) ==
    LET found == ById(measurements, phone, id) IN
    /\ IF found.code # 200
       THEN UNCHANGED <<measurements, createdBy>>
       ELSE /\ measurements' = Drop(measurements, id)
            /\ createdBy' = Drop(createdBy, <<"measurements", id>>)
    /\ resp' = Response("deleteMeasurement", found.code, found.user, "measurements",
                        Some(id), None)
    /\ UNCHANGED <<now, users, customers, orders, notifications, flwConfigured, tasks, blobs>>

(* notifications *)

\* the enum of the schema's type path
NotificationTypes ==
    {"delivery_reminder", "balance_alert", "birthday", "order_update", "expiring_soon",
     "expired", "trial_users", "suspension", "ban", "new_year", "easter",
     "independence_day", "democracy_day", "christmas", "eid_al_fitr", "eid_al_adha",
     "valentine"}

NotificationDefaults ==
    [userId |-> "", type |-> "", title |-> "", message |-> "", read |-> FALSE,
     orderId |-> 0]

GetNotification(phone, id) ==
    LET found == ById(notifications, phone, id) IN
    /\ resp' = Response("getNotification", found.code, found.user, "notifications",
                        Some(id),
                        IF found.code = 200 THEN Some(notifications[id]) ELSE None)
    /\ UNCHANGED <<now, users, records, flwConfigured, tasks, blobs>>

PostNotification(phone, body) ==
    LET caller == Caller(phone)
        id == NewRecordId(notifications)
        doc == NewDocument(NotificationDefaults, body,
                           IF Has(caller.user) THEN Val(caller.user) ELSE "")
    IN  /\ IF caller.code # 201
           THEN /\ resp' = Response("postNotification", caller.code, None,
                                    "notifications", None, None)
                /\ UNCHANGED <<notifications, createdBy>>
           ELSE IF doc.title = "" \/ doc.message = "" \/ doc.type \notin NotificationTypes
           THEN /\ resp' = Response("postNotification", 400, caller.user,
                                    "notifications", None, None)
                /\ UNCHANGED <<notifications, createdBy>>
           ELSE /\ id \in RecordIds
                /\ notifications' = Put(notifications, id, doc)
                /\ createdBy' = Put(createdBy, <<"notifications", id>>, Val(caller.user))
                /\ resp' = Response("postNotification", 201, caller.user,
                                    "notifications", Some(id), Some(doc))
        /\ UNCHANGED <<now, users, customers, orders, measurements, flwConfigured, tasks, blobs>>

PutNotification(phone, id, body) ==
    LET found == ById(notifications, phone, id)
        doc == UpdateFields(notifications[id], body)
    IN  /\ IF found.code # 200
           THEN /\ resp' = Response("putNotification", found.code, found.user,
                                    "notifications", Some(id), None)
                /\ UNCHANGED notifications
           ELSE /\ notifications' = [notifications EXCEPT ![id] = doc]
                /\ resp' = Response("putNotification", 200, found.user, "notifications",
                                    Some(id), Some(doc))
        /\ UNCHANGED <<now, users, customers, orders, measurements, createdBy,
                       flwConfigured, tasks, blobs>>

DeleteNotification(phone, id) ==
    LET found == ById(notifications, phone, id) IN
    /\ IF found.code # 200
       THEN UNCHANGED <<notifications, createdBy>>
       ELSE /\ notifications' = Drop(notifications, id)
            /\ createdBy' = Drop(createdBy, <<"notifications", id>>)
    /\ resp' = Response("deleteNotification", found.code, found.user, "notifications",
                        Some(id), None)
    /\ UNCHANGED <<now, users, customers, orders, measurements, flwConfigured, tasks, blobs>>

-----------------------------------------------------------------------------
(* Account deletion: DELETE /api/auth/account, POST /api/auth/delete-account *)
(* and POST /api/auth/delete-account-by-phone; DELETE /api/admin/users/:id   *)

\* the database calls of the "delete all related data" block, in order
RelatedDataSteps ==
    <<"Customer.find", "Customer.deleteMany", "Order.find", "Order.deleteMany",
      "Measurement.find", "Measurement.deleteMany", "Notification.deleteMany">>

Position(step) == CHOOSE i \in DOMAIN RelatedDataSteps : RelatedDataSteps[i] = step

\* the block runs a step when no earlier step threw ("none": none throws)
Completes(step, failAt) ==
    failAt = "none" \/ Position(step) < Position(failAt)

\* Model.find({ userId }) and what Model.deleteMany({ userId }) leaves
FindByUser(coll, userId) == {id \in DOMAIN coll : coll[id].userId = userId}
DeleteMany(coll, userId) ==
    [id \in DOMAIN coll \ FindByUser(coll, userId) |-> coll[id]]

Elements(seq) == {seq[i] : i \in DOMAIN seq}

\* the URLs the loops over the found documents hand to deleteFromS3
CustomerPhotos(userId) ==
    {customers[id].photo : id \in FindByUser(customers, userId)}
OrderImages(userId) ==
    UNION {{Some(url) : url \in Elements(orders[id].stylePictures)
                                  \cup Elements(orders[id].sketches)} :
           id \in FindByUser(orders, userId)}
MeasurementPhotos(userId) ==
    {measurements[id].photoReference : id \in FindByUser(measurements, userId)}

\* a loop that stops at the first blob that fails, against which C14 is tested
DeleteBlobsAborting(bucket, urls, failing) ==
    IF \E url \in urls : Has(url) /\ Val(url)[2] \in failing THEN bucket
    ELSE bucket \ {Val(url)[2] : url \in {u \in urls : Has(u)}}

\* for (const url of urls) { try { await deleteFromS3(url) } catch {} }
RECURSIVE DeleteBlobs(_, _, _)
DeleteBlobs(bucket, urls, failing) ==
    IF urls = {} THEN bucket
    ELSE LET url == CHOOSE u \in urls : TRUE IN
         DeleteBlobs(deleteFromS3(bucket, url, failing), urls \ {url}, failing)

\* what the request told the handler, for the properties to read
DeletionRequest(digits, failAt, userFails, failing) ==
    Some([phone |-> digits, failAt |-> failAt, userFails |-> userFails,
          failing |-> failing, logged |-> {}, password |-> None])

\* the same with the password of the protected entry point
WithPassword(request, password) == Some([Val(request) EXCEPT !.password = password])

\* the workflow both entry points run once the tenant is found: the related
\* data inside one try block whose catch only logs, then the profile image,
\* then the tenant; failAt is the database call of the block that throws,
\* userFails whether User.findByIdAndDelete throws, failing the keys whose
\* DeleteObject fails
DeleteAccountWorkflow(op, userId, password, failAt, userFails, failing, html) ==
    LET done(step) == Completes(step, failAt)
        b1 == IF done("Customer.find")
              THEN DeleteBlobs(blobs, CustomerPhotos(userId), failing) ELSE blobs
        b2 == IF done("Order.find")
              THEN DeleteBlobs(b1, OrderImages(userId), failing) ELSE b1
        b3 == IF done("Measurement.find")
              THEN DeleteBlobs(b2, MeasurementPhotos(userId), failing) ELSE b2
        b4 == DeleteBlobs(b3, {users[userId].profileImage}, failing)
        c == IF done("Customer.deleteMany")
             THEN DeleteMany(customers, userId) ELSE customers
        o == IF done("Order.deleteMany") THEN DeleteMany(orders, userId) ELSE orders
        m == IF done("Measurement.deleteMany")
             THEN DeleteMany(measurements, userId) ELSE measurements
        n == IF failAt = "none" THEN DeleteMany(notifications, userId)
             ELSE notifications
        left == [customers |-> c, orders |-> o, measurements |-> m, notifications |-> n]
        \* "Deleting from S3 - Bucket: ..., Key: ..." of every call
        urls == (IF done("Customer.find") THEN CustomerPhotos(userId) ELSE {})
                    \cup (IF done("Order.find") THEN OrderImages(userId) ELSE {})
                    \cup (IF done("Measurement.find") THEN MeasurementPhotos(userId)
                          ELSE {})
                    \cup {users[userId].profileImage}
        request ==
            Some([Val(DeletionRequest(users[userId].phone, failAt, userFails, failing))
                    EXCEPT !.logged = {Val(url)[2] : url \in {u \in urls : Has(u)}},
                           !.password = password])
    IN  /\ blobs' = b4
        /\ customers' = c
        /\ orders' = o
        /\ measurements' = m
        /\ notifications' = n
        /\ createdBy' = [key \in {k \in DOMAIN createdBy : k[2] \in DOMAIN left[k[1]]}
                            |-> createdBy[key]]
        /\ IF userFails
           THEN /\ UNCHANGED users
                /\ resp' = Response(op, IF html THEN 500 ELSE 400, Some(userId), "users",
                                    Some(userId), request)
           ELSE /\ users' = Drop(users, userId)
                /\ resp' = Response(op, 200, Some(userId), "users", Some(userId), request)

\* handleAccountDeletion: DELETE /account and POST /delete-account
handleAccountDeletion(phone, password, failAt, userFails, failing, html) ==
    /\ IF ~Has(phone) \/ ~Has(password)
       THEN /\ resp' = Response("deleteAccount", 400, None, "users", None, None)
            /\ UNCHANGED <<users, records, blobs>>
       ELSE IF Len(phoneDigits(Val(phone))) # 11
       THEN /\ resp' = Response("deleteAccount", 400, None, "users", None, None)
            /\ UNCHANGED <<users, records, blobs>>
       ELSE LET digits == phoneDigits(Val(phone))
                found == FindUserByPhone(digits) IN
            IF ~Has(found)
            THEN /\ resp' = Response("deleteAccount", 404, None, "users", None,
                                     WithPassword(DeletionRequest(digits, failAt, userFails,
                                                                  failing), password))
                 /\ UNCHANGED <<users, records, blobs>>
            ELSE IF ~comparePassword(users[Val(found)], Val(password))
            THEN /\ resp' = Response("deleteAccount", 401, found, "users", found,
                                     WithPassword(DeletionRequest(digits, failAt, userFails,
                                                                  failing), password))
                 /\ UNCHANGED <<users, records, blobs>>
            ELSE DeleteAccountWorkflow("deleteAccount", Val(found), password, failAt,
                                       userFails, failing, html)
    /\ UNCHANGED <<now, flwConfigured, tasks>>

\* handleAccountDeletionByPhone: POST /delete-account-by-phone
handleAccountDeletionByPhone(phone, failAt, userFails, failing, html) ==
    /\ IF ~Has(phone)
       THEN /\ resp' = Response("deleteAccountByPhone", 400, None, "users", None, None)
            /\ UNCHANGED <<users, records, blobs>>
       ELSE IF Len(phoneDigits(Val(phone))) # 11
       THEN /\ resp' = Response("deleteAccountByPhone", 400, None, "users", None, None)
            /\ UNCHANGED <<users, records, blobs>>
       ELSE LET digits == phoneDigits(Val(phone))
                found == FindUserByPhone(digits) IN
            IF ~Has(found)
            THEN /\ resp' = Response("deleteAccountByPhone", 404, None, "users", None,
                                     DeletionRequest(digits, failAt, userFails, failing))
                 /\ UNCHANGED <<users, records, blobs>>
            ELSE DeleteAccountWorkflow("deleteAccountByPhone", Val(found), None, failAt,
                                       userFails, failing, html)
    /\ UNCHANGED <<now, flwConfigured, tasks>>

\* DELETE /api/admin/users/:id: the profile image and the user document
DeleteAdminUser(phone, id, failing) ==
    /\ IF isAdmin(phone) # 0
       THEN /\ resp' = Response("adminDeleteUser", isAdmin(phone), None, "users",
                                Some(id), None)
            /\ UNCHANGED <<users, blobs>>
       ELSE IF id \notin DOMAIN users
       THEN /\ resp' = Response("adminDeleteUser", 404, None, "users", Some(id), None)
            /\ UNCHANGED <<users, blobs>>
       ELSE /\ blobs' = deleteFromS3(blobs, users[id].profileImage, failing)
            /\ users' = Drop(users, id)
            /\ resp' = Response("adminDeleteUser", 200, None, "users", Some(id), None)
    /\ UNCHANGED <<now, records, flwConfigured, tasks>>

-----------------------------------------------------------------------------
(* POST /api/admin/notifications/broadcast *)

validTypes ==
    {"delivery_reminder", "balance_alert", "birthday", "order_update", "expiring_soon",
     "expired", "trial_users", "suspension", "ban", "new_year", "easter",
     "independence_day", "democracy_day", "christmas", "eid_al_fitr", "eid_al_adha",
     "valentine"}

\* a resolution that does not mend the typo, against which C21 is tested
notificationTypeAsSent(type) ==
    IF type \in validTypes THEN type ELSE "order_update"

\* the type the notifications get: a common typo is mended, and anything
\* that is not a valid type becomes order_update
notificationType(type) ==
    LET normalizedType == IF type = "trial_user" THEN "trial_users" ELSE type IN
    IF normalizedType \in validTypes THEN normalizedType ELSE "order_update"

\* sevenDaysFromNow: now + 7 * 24 * 60 * 60 * 1000 ms
sevenDaysFromNow(t) == t + 7 * TicksPerDay

\* the end date the expiring_soon filter reads
userEndDate(user) ==
    IF user.subscriptionType = "trial" THEN user.trialEndDate
    ELSE user.subscriptionEndDate

\* the expiring_soon query and filter: not an admin, active, and an end date
\* within the next seven days
expiringSoon(user, t) ==
    /\ ~user.isAdmin
    /\ user.subscriptionStatus = "active"
    /\ Has(userEndDate(user))
    /\ Val(userEndDate(user)) >= t
    /\ Val(userEndDate(user)) <= sevenDaysFromNow(t)

\* the expired query: not an admin, and either stored as expired or still
\* active with the end date of its subscription type in the past ($lt never
\* matches an absent date)
expired(user, t) ==
    /\ ~user.isAdmin
    /\ \/ user.subscriptionStatus = "expired"
       \/ /\ user.subscriptionStatus = "active"
          /\ \/ /\ user.subscriptionType = "trial"
                /\ Has(user.trialEndDate)
                /\ Val(user.trialEndDate) < t
             \/ /\ user.subscriptionType # "trial"
                /\ Has(user.subscriptionEndDate)
                /\ Val(user.subscriptionEndDate) < t

\* a query that forgets the admin filter, against which C18 is tested
BroadcastTargetsWithAdmins(type, t) ==
    {id \in DOMAIN users :
        CASE type = "expiring_soon" -> expiringSoon(users[id], t) \/ users[id].isAdmin
          [] type = "expired" -> expired(users[id], t) \/ users[id].isAdmin
          [] OTHER -> TRUE}

\* the users a broadcast of a (normalised) type goes to
BroadcastTargets(type, t) ==
    {id \in DOMAIN users :
        CASE type = "expiring_soon" -> expiringSoon(users[id], t)
          [] type = "expired" -> expired(users[id], t)
          [] type = "trial_users" ->
                /\ ~users[id].isAdmin
                /\ users[id].subscriptionType = "trial"
                /\ users[id].subscriptionStatus = "active"
          [] OTHER -> ~users[id].isAdmin}

\* an insertion that stops after the first document, against which C22 is
\* tested
InsertFirst(coll, userIds, fields) ==
    IF userIds = {} THEN coll
    ELSE Put(coll, NewRecordId(coll),
             NewDocument(NotificationDefaults, fields, CHOOSE id \in userIds : TRUE))

\* Notification.insertMany(users.map(user => ({ userId: user._id, ... })))
RECURSIVE InsertMany(_, _, _)
InsertMany(coll, userIds, fields) ==
    IF userIds = {} THEN coll
    ELSE LET userId == CHOOSE id \in userIds : TRUE
             doc == NewDocument(NotificationDefaults, fields, userId)
         IN  InsertMany(Put(coll, NewRecordId(coll), doc), userIds \ {userId}, fields)

\* sendPushNotifications(pushTokens, ...): nothing to send without tokens;
\* a request that throws counts every token as failed; otherwise the
\* tickets of the push service say which tokens it rejected
sendPushNotifications(pushTokens, throws, rejected) ==
    IF pushTokens = <<>> THEN [success |-> 0, failed |-> 0]
    ELSE IF throws THEN [success |-> 0, failed |-> Len(pushTokens)]
    ELSE [success |-> Cardinality({i \in DOMAIN pushTokens : pushTokens[i] \notin rejected}),
          failed |-> Cardinality({i \in DOMAIN pushTokens : pushTokens[i] \in rejected})]

\* users.filter(...).map(user => user.pushNotificationToken)
RECURSIVE TokensOf(_)
TokensOf(userIds) ==
    IF userIds = {} THEN <<>>
    ELSE LET userId == CHOOSE id \in userIds : TRUE IN
         <<Val(users[userId].pushNotificationToken)>> \o TokensOf(userIds \ {userId})

\* throws: the request to the push service fails; rejected: the tokens the
\* service refuses. The body of the model's response holds the JSON answer
\* (answer) and what the handler logs: the type it was asked for and the one
\* it stored, and the result of the push
PostBroadcast(phone, title, message, type, throws, rejected) ==
    /\ IF isAdmin(phone) # 0
       THEN /\ resp' = Response("broadcast", isAdmin(phone), None, "notifications",
                                None, None)
            /\ UNCHANGED <<notifications, createdBy>>
       ELSE IF title = "" \/ message = ""
       THEN /\ resp' = Response("broadcast", 400, None, "notifications", None, None)
            /\ UNCHANGED <<notifications, createdBy>>
       ELSE LET targets == BroadcastTargets(notificationType(type), now)
                inserted == InsertMany(notifications, targets,
                                       [type |-> notificationType(type), title |-> title,
                                        message |-> message, read |-> FALSE])
                admin == FindUserByPhone(phoneDigits(Val(phone)))
                usersWithTokens ==
                    {id \in targets : /\ users[id].pushNotificationEnabled
                                      /\ Has(users[id].pushNotificationToken)}
                pushResult ==
                    IF usersWithTokens = {} THEN None
                    ELSE Some(sendPushNotifications(TokensOf(usersWithTokens), throws,
                                                    rejected))
            IN  /\ notifications' = inserted
                /\ createdBy' =
                      [key \in DOMAIN createdBy
                                \cup {<<"notifications", id>> :
                                        id \in DOMAIN inserted \ DOMAIN notifications}
                        |-> IF key \in DOMAIN createdBy THEN createdBy[key]
                            ELSE Val(admin)]
                /\ resp' = Response("broadcast", 200, admin, "notifications", None,
                                    Some([originalType |-> type, title |-> title,
                                          message |-> message,
                                          type |-> notificationType(type),
                                          count |-> Cardinality(targets),
                                          answer |->
                                            [message |-> <<"Notification sent to",
                                                           Cardinality(targets), "users">>,
                                             count |-> Cardinality(targets)],
                                          pushResult |-> pushResult]))
    /\ UNCHANGED <<now, users, customers, orders, measurements, flwConfigured, tasks, blobs>>

-----------------------------------------------------------------------------
(* The clock *)

\* the instants the clock passes through: a signup at the first one has its
\* trial end on 2024-03-01 12:00 and a month bought then ends on 2024-03-02 12:00
Instants ==
    {At(2024, 1, 31, 1), At(2024, 2, 29, 1), At(2024, 3, 2, 0), At(2024, 3, 2, 1),
     At(2025, 12, 31, 1)}

\* time passes; the response has been sent
Tick ==
    /\ \E t \in Instants : t > now /\ now' = t
    /\ resp' = NoResponse
    /\ UNCHANGED <<users, records, flwConfigured, tasks, blobs>>

-----------------------------------------------------------------------------
(* The subscription lifecycle of the tenants *)

\* the phone parameters the lifecycle requests carry
LifecyclePhones == {None, Some(PhoneADashed), Some(PhoneShort)}

\* the dates an administrator supplies
AdminDates == {None, Some(At(2024, 2, 15, 0))}

\* the bodies of PUT /users/:id/subscription the lifecycle sends
AdminSubscriptionBodies ==
    {SubscriptionBody(type, status, None, endDate) :
        type \in {"", "trial"}, status \in {"", "cancelled"}, endDate \in AdminDates}

\* the answers of the verification call the lifecycle follows
LifecycleVerifyResults ==
    {VerifyThrows,
     VerifyAnswer("success", Some(Transaction("failed", Some(PhoneA), "monthly", 5000))),
     VerifyAnswer("success", Some(Transaction("successful", Some(PhoneA), "monthly", 5000)))}

\* no tenant's paymentHistory has reached n entries
HistoryBelow(n) == \A id \in DOMAIN users : Len(users[id].paymentHistory) < n

Init ==
    /\ now = At(2024, 1, 31, 1)
    /\ users = (AdminId :> AdminUser)
    /\ customers = <<>>
    /\ orders = <<>>
    /\ measurements = <<>>
    /\ notifications = <<>>
    /\ createdBy = <<>>
    /\ blobs = BlobKeys
    /\ flwConfigured = TRUE
    /\ tasks = <<>>
    /\ resp = NoResponse

Next ==
    \/ Tick
    \/ \E phone \in LifecyclePhones : PostSignup(phone)
    \/ \E phone \in LifecyclePhones : GetSubscriptionStatus(phone)
    \/ \E phone \in LifecyclePhones, tier \in {"", "monthly"} :
            PostSubscriptionUpgrade(phone, tier)
    \/ \E phone \in LifecyclePhones :
            PostPaymentInitialize(phone, "monthly", 5000, "ST-1", "error")
    \/ \E txRef \in {None, Some("ST-1")}, status \in {"", "cancelled"},
          v \in LifecycleVerifyResults :
            /\ HistoryBelow(1)
            /\ GetPaymentCallback(txRef, None, status, v)
    \/ \E phone \in {Some(AdminPhone), Some(PhoneA)}, id \in UserIds,
          body \in AdminSubscriptionBodies :
            PutAdminUserSubscription(phone, id, body)
    \/ \E phone \in {Some(AdminPhone)}, id \in UserIds, body \in UserBodies :
            PutAdminUser(phone, id, body)
    \/ \E phone \in LifecyclePhones, body \in UserBodies : PutMe(phone, body)

Spec == Init /\ [][Next]_vars

-----------------------------------------------------------------------------
(* The payment callback *)

\* the instants payments arrive at: the tiers bought then end past the end of
\* a month, of February and of the year
PaymentInstants == {At(2024, 1, 31, 1), At(2024, 2, 29, 1), At(2024, 11, 30, 0)}

PaymentTick ==
    /\ \E t \in PaymentInstants : t > now /\ now' = t
    /\ resp' = NoResponse
    /\ UNCHANGED <<users, records, flwConfigured, tasks, blobs>>

InitPayment ==
    /\ now = At(2024, 1, 31, 1)
    /\ users = (AdminId :> AdminUser)
    /\ customers = <<>>
    /\ orders = <<>>
    /\ measurements = <<>>
    /\ notifications = <<>>
    /\ createdBy = <<>>
    /\ blobs = BlobKeys
    /\ flwConfigured \in BOOLEAN
    /\ tasks = <<>>
    /\ resp = NoResponse

NextPayment ==
    \/ PaymentTick
    \/ \E phone \in LifecyclePhones : PostSignup(phone)
    \/ \E phone \in LifecyclePhones, tier \in {"", "monthly"}, amount \in Amounts,
          outcome \in InitOutcomes :
            PostPaymentInitialize(phone, tier, amount, "ST-1", outcome)
    \/ \E txRef \in {None} \cup {Some(r) : r \in TxRefs}, status \in {"", "cancelled"},
          v \in VerifyResults :
            /\ HistoryBelow(MaxHistory)
            /\ GetPaymentCallback(txRef, Some("7001"), status, v)

SpecPayment == InitPayment /\ [][NextPayment]_vars

-----------------------------------------------------------------------------
(* Two tenants and their records *)

RecordPhones == {Some(PhoneA), Some(PhoneB)}

\* the bodies of the create requests: without the required fields, with
\* them, and naming an owner
CustomerBodies == {<<>>, [name |-> "Ada"], [name |-> "Ada", userId |-> "u2"]}
OrderBodies ==
    {<<>>, [customerId |-> 1, amountCharged |-> 9, balance |-> 9],
     [customerId |-> 2, amountCharged |-> 9, balance |-> 9, userId |-> "u1"]}
MeasurementBodies == {<<>>, [customerId |-> 1, category |-> "shirt", userId |-> "u2"]}
NotificationBodies ==
    {<<>>, [type |-> "birthday", title |-> "due", message |-> "soon", userId |-> "u1"]}

\* the bodies of the update requests: a field of the document, an owner
CustomerUpdates == {[name |-> "Bisi"], [name |-> "Bisi", userId |-> "u2"]}
OrderUpdates == {[customerId |-> 2], [userId |-> "u2"]}
MeasurementUpdates == {[category |-> "trouser"], [userId |-> "u2"]}
NotificationUpdates == {[read |-> TRUE], [userId |-> "u2"]}

NextRecords ==
    \/ \E phone \in RecordPhones : PostSignup(phone)
    \/ \E phone \in RecordPhones \cup {None}, body \in CustomerBodies :
            RecordCount < MaxRecords /\ PostCustomer(phone, body)
    \/ \E phone \in RecordPhones \cup {None}, id \in RecordIds : GetCustomer(phone, id)
    \/ \E phone \in RecordPhones, id \in RecordIds, body \in CustomerUpdates :
            PutCustomer(phone, id, body)
    \/ \E phone \in RecordPhones, id \in RecordIds : DeleteCustomer(phone, id)
    \/ \E phone \in RecordPhones, body \in OrderBodies :
            RecordCount < MaxRecords /\ PostOrder(phone, body)
    \/ \E phone \in RecordPhones, id \in RecordIds : GetOrder(phone, id)
    \/ \E phone \in RecordPhones, id \in RecordIds : GetOrdersByCustomer(phone, id)
    \/ \E phone \in RecordPhones, id \in RecordIds : PutOrderMarkPaid(phone, id)
    \/ \E phone \in RecordPhones, id \in RecordIds, body \in OrderUpdates :
            PutOrder(phone, id, body)
    \/ \E phone \in RecordPhones, id \in RecordIds : DeleteOrder(phone, id)
    \/ \E phone \in RecordPhones, body \in MeasurementBodies :
            RecordCount < MaxRecords /\ PostMeasurement(phone, body)
    \/ \E phone \in RecordPhones, id \in RecordIds : GetMeasurement(phone, id)
    \/ \E phone \in RecordPhones, id \in RecordIds, body \in MeasurementUpdates :
            PutMeasurement(phone, id, body)
    \/ \E phone \in RecordPhones, id \in RecordIds : DeleteMeasurement(phone, id)
    \/ \E phone \in RecordPhones, body \in NotificationBodies :
            RecordCount < MaxRecords /\ PostNotification(phone, body)
    \/ \E phone \in RecordPhones, id \in RecordIds : GetNotification(phone, id)
    \/ \E phone \in RecordPhones, id \in RecordIds, body \in NotificationUpdates :
            PutNotification(phone, id, body)
    \/ \E phone \in RecordPhones, id \in RecordIds : DeleteNotification(phone, id)

SpecRecords == Init /\ [][NextRecords]_vars

-----------------------------------------------------------------------------
(* Tenants, their records and blobs, and the deletion of accounts *)

DeletionPhones == {None, Some(PhoneShort), Some(PhoneA), Some(PhoneB)}
Passwords == {None, Some(SignupPassword), Some("guess")}
DatabaseFailures == {"none"} \cup Elements(RelatedDataSteps)

\* an ObjectId is never issued twice: the model gives a phone's new tenant
\* the _id of the last one only when nothing refers to that _id any more
Unreferenced(id) ==
    /\ \A coll \in {customers, orders, measurements, notifications} :
            \A r \in DOMAIN coll : coll[r].userId # id
    /\ \A key \in DOMAIN createdBy : createdBy[key] # id

NextDeletion ==
    \/ \E phone \in {Some(PhoneA), Some(PhoneB)} :
            Unreferenced(NewUserId(phoneDigits(Val(phone)))) /\ PostSignup(phone)
    \/ PutMe(Some(PhoneA), [profileImage |-> Some(Url("b2"))])
    \/ \E phone \in {Some(PhoneA), Some(PhoneB)} :
            /\ RecordCount < MaxRecords
            /\ PostCustomer(phone, [name |-> "Ada", photo |-> Some(Url("b1"))])
    \/ /\ RecordCount < MaxRecords
       /\ PostOrder(Some(PhoneA),
                    [customerId |-> 1, amountCharged |-> 9, balance |-> 9,
                     stylePictures |-> <<Url("b1")>>, sketches |-> <<Url("b2")>>])
    \/ /\ RecordCount < MaxRecords
       /\ PostMeasurement(Some(PhoneA),
                          [customerId |-> 1, category |-> "shirt",
                           photoReference |-> Some(Url("b2"))])
    \/ /\ RecordCount < MaxRecords
       /\ PostNotification(Some(PhoneA),
                           [type |-> "birthday", title |-> "due", message |-> "soon"])
    \/ \E phone \in {None, Some(PhoneA)}, password \in Passwords,
          userFails \in BOOLEAN, html \in BOOLEAN :
            handleAccountDeletion(phone, password, "none", userFails, {}, html)
    \/ \E phone \in DeletionPhones \ {None}, failAt \in DatabaseFailures :
            handleAccountDeletionByPhone(phone, failAt, FALSE, {}, FALSE)
    \/ \E failing \in SUBSET BlobKeys :
            handleAccountDeletionByPhone(Some(PhoneA), "none", FALSE, failing, FALSE)
    \/ \E id \in UserIds, failing \in {{}, {"b2"}} :
            DeleteAdminUser(Some(AdminPhone), id, failing)

SpecDeletion == Init /\ [][NextDeletion]_vars

-----------------------------------------------------------------------------
(* Broadcasts to the tenants *)

\* the tenants sign up on 2024-01-31 12:00 and their trials end on
\* 2024-03-01 12:00; a month paid for on the first day ends on 2024-03-02
\* 12:00. The instants are ten, seven and three days before the end of the
\* trial, the end itself, and a day and a half after it
BroadcastInstants ==
    {At(2024, 1, 31, 1), At(2024, 2, 20, 1), At(2024, 2, 23, 1), At(2024, 2, 27, 1),
     At(2024, 3, 1, 1), At(2024, 3, 3, 0)}

BroadcastTick ==
    /\ \E t \in BroadcastInstants : t > now /\ now' = t
    /\ resp' = NoResponse
    /\ UNCHANGED <<users, records, flwConfigured, tasks, blobs>>

BroadcastTypes == {"expiring_soon", "expired", "trial_user", "trial_users", "sale"}

\* insertMany finds an _id for every target
Fits(type) ==
    RecordCount + Cardinality(BroadcastTargets(notificationType(type), now)) <= MaxRecords

NextBroadcast ==
    \/ BroadcastTick
    \/ \E phone \in RecordPhones : now = At(2024, 1, 31, 1) /\ PostSignup(phone)
    \/ \E phone \in RecordPhones : GetSubscriptionStatus(phone)
    \/ PostSubscriptionUpgrade(Some(PhoneA), "monthly")
    \/ \E body \in {[subscriptionType |-> "monthly"], [subscriptionStatus |-> "cancelled"]} :
            PutMe(Some(PhoneB), body)
    \/ PutAdminUser(Some(AdminPhone), "u2", [isAdmin |-> TRUE])
    \/ PutSettings(Some(PhoneB), None, Some("ExponentPushToken[b]"))
    \/ \E title \in {"", "Hello"}, type \in BroadcastTypes :
            /\ notifications = <<>>
            /\ PostBroadcast(Some(AdminPhone), title, "to all of you", type, FALSE, {})
    \/ \E throws \in BOOLEAN, rejected \in {{}, {"ExponentPushToken[b]"}} :
            /\ Fits("sale")
            /\ PostBroadcast(Some(AdminPhone), "Hello", "to all of you", "sale",
                             throws, rejected)
    \/ PostBroadcast(Some(PhoneA), "Hello", "to all of you", "sale", FALSE, {})

SpecBroadcast == Init /\ [][NextBroadcast]_vars

-----------------------------------------------------------------------------
(* The administrator's changes of a tenant's tier *)

AdminInstants == {At(2024, 1, 31, 1), At(2024, 2, 29, 1), At(2024, 11, 30, 0)}

AdminTick ==
    /\ \E t \in AdminInstants : t > now /\ now' = t
    /\ resp' = NoResponse
    /\ UNCHANGED <<users, records, flwConfigured, tasks, blobs>>

\* the bodies of PUT /users/:id/subscription that name a type, with and
\* without the dates
AdminTierBodies ==
    {SubscriptionBody(type, "", startDate, endDate) :
        type \in SubscriptionTypes,
        startDate \in {None, Some(At(2024, 2, 15, 0))},
        endDate \in {None, Some(At(2024, 6, 1, 0))}}

NextAdmin ==
    \/ AdminTick
    \/ PostSignup(Some(PhoneA))
    \/ \E id \in UserIds, body \in AdminTierBodies :
            PutAdminUserSubscription(Some(AdminPhone), id, body)

SpecAdmin == Init /\ [][NextAdmin]_vars

-----------------------------------------------------------------------------
(* The scheduled job: updateOrdersToProgress, run by cron every hour.      *)
(* A run is a sequence of awaited steps; the scheduler does not wait for   *)
(* a run to finish before it starts the next, and requests are served      *)
(* between the steps.                                                      *)

\* the runs that can be in progress at the same time
SweepRuns == {"run1", "run2"}

\* date.setHours(0, 0, 0, 0)
startOfDay(t) == MakeDate(DayOf(t), 0)

\* twoDaysAgo: the start of the day two days before t
twoDaysAgo(t) == startOfDay(setDate(t, getDate(t) - 2))

\* Order.find({ status: 'pending', createdAt: { $lte: twoDaysAgo } })
ordersToUpdate(t) ==
    {id \in DOMAIN orders :
        orders[id].status = "pending" /\ orders[id].createdAt <= twoDaysAgo(t)}

\* the found documents as the loop walks them, each with its _id
RECURSIVE Found(_)
Found(ids) ==
    IF ids = {} THEN <<>>
    ELSE LET id == CHOOSE i \in ids : \A other \in ids : i <= other IN
         <<[id |-> id, doc |-> orders[id]]>> \o Found(ids \ {id})

\* the reminder of one order
DeliveryReminder(order) ==
    NewDocument(NotificationDefaults,
                [type |-> "delivery_reminder",
                 title |-> "Order Status Updated - In Progress",
                 message |-> "Order is now in progress", orderId |-> order.id],
                order.doc.userId)

\* a run begins: the query
SweepFind(run) ==
    /\ run \notin DOMAIN tasks
    /\ tasks' = IF ordersToUpdate(now) = {} THEN tasks
                ELSE Put(tasks, run, [op |-> "sweep", pc |-> "order",
                                      found |-> Found(ordersToUpdate(now))])
    /\ resp' = NoResponse
    /\ UNCHANGED <<now, users, records, flwConfigured, blobs>>

\* order.status = 'in_progress'; await order.save(): the save writes the
\* modified path of the document found; an error ends the run in the catch
SweepSaveOrder(run, fails) ==
    /\ run \in DOMAIN tasks /\ tasks[run].op = "sweep" /\ tasks[run].pc = "order"
    /\ LET order == Head(tasks[run].found) IN
       IF fails \/ order.id \notin DOMAIN orders
       THEN /\ tasks' = Drop(tasks, run)
            /\ UNCHANGED orders
       ELSE /\ orders' = [orders EXCEPT ![order.id].status = "in_progress"]
            /\ tasks' = [tasks EXCEPT ![run].pc = "notification"]
    /\ resp' = NoResponse
    /\ UNCHANGED <<now, users, customers, measurements, notifications, createdBy,
                   flwConfigured, blobs>>

\* await notification.save(), then the next order of the loop
SweepSaveNotification(run, fails) ==
    /\ run \in DOMAIN tasks /\ tasks[run].op = "sweep" /\ tasks[run].pc = "notification"
    /\ LET order == Head(tasks[run].found)
           rest == Tail(tasks[run].found)
       IN  IF fails
           THEN /\ tasks' = Drop(tasks, run)
                /\ UNCHANGED notifications
           ELSE /\ NewRecordId(notifications) \in RecordIds
                /\ notifications' = Put(notifications, NewRecordId(notifications),
                                        DeliveryReminder(order))
                /\ tasks' = IF rest = <<>> THEN Drop(tasks, run)
                            ELSE [tasks EXCEPT ![run].pc = "order", ![run].found = rest]
    /\ resp' = NoResponse
    /\ UNCHANGED <<now, users, customers, orders, measurements, createdBy,
                   flwConfigured, blobs>>

\* the instants of the runs: an order taken at the first is exactly two days
\* old at the third and selected at the fourth
SweepInstants ==
    {At(2024, 2, 1, 1), At(2024, 2, 2, 1), At(2024, 2, 3, 0), At(2024, 2, 4, 0)}

SweepTick ==
    /\ \E t \in SweepInstants : t > now /\ now' = t
    /\ resp' = NoResponse
    /\ UNCHANGED <<users, records, flwConfigured, tasks, blobs>>

\* what the tailor sends while the job runs
SweepOrderBody == [customerId |-> 1, amountCharged |-> 9, balance |-> 9]
SweepOrderUpdates == {[status |-> "ready"]}

NextSweep ==
    \/ SweepTick
    \/ PostSignup(Some(PhoneA))
    \/ PostCustomer(Some(PhoneA), [name |-> "Ada"])
    \/ PostOrder(Some(PhoneA), SweepOrderBody)
    \/ \E id \in RecordIds, body \in SweepOrderUpdates : PutOrder(Some(PhoneA), id, body)
    \/ \E run \in SweepRuns : SweepFind(run)
    \/ \E run \in SweepRuns, fails \in BOOLEAN : SweepSaveOrder(run, fails)
    \/ \E run \in SweepRuns, fails \in BOOLEAN : SweepSaveNotification(run, fails)

SpecSweep == Init /\ [][NextSweep]_vars

-----------------------------------------------------------------------------
(* The notifications router: PUT /api/notifications/<segment>.  The router *)
(* hands a request to the first route, in the order of declaration, whose  *)
(* path matches.                                                           *)

\* the PUT routes of the router, in the order they are declared
NotificationPutRoutes == <<"/:id", "/mark-all-read">>

\* whether a route's path matches the segment after /api/notifications/
RouteMatches(route, segment) == route = "/:id" \/ route = "/" \o segment

\* the route a request is handed to
RouteOf(routes, segment) ==
    routes[CHOOSE i \in DOMAIN routes :
              /\ RouteMatches(routes[i], segment)
              /\ \A j \in DOMAIN routes : RouteMatches(routes[j], segment) => i <= j]

\* the segments that are ObjectIds, by the _id they name
IdSegments == <<"1", "2", "3", "4">>

\* the cast of a segment to an _id: 0 when the segment is no ObjectId
\* (a CastError in the query)
CastToObjectId(segment) ==
    IF \E id \in RecordIds : id \in DOMAIN IdSegments /\ IdSegments[id] = segment
    THEN CHOOSE id \in RecordIds : id \in DOMAIN IdSegments /\ IdSegments[id] = segment
    ELSE 0

\* router.put('/mark-all-read'): updateMany({ userId, read: false }, { read: true })
PutMarkAllRead(phone) ==
    LET caller == Caller(phone) IN
    /\ IF caller.code # 201
       THEN /\ resp' = [Response("markAllRead", caller.code, None, "notifications",
                                 None, None) EXCEPT !.request = Some("mark-all-read")]
            /\ UNCHANGED notifications
       ELSE /\ notifications' =
                   [id \in DOMAIN notifications |->
                       IF notifications[id].userId = Val(caller.user)
                          /\ ~notifications[id].read
                       THEN [notifications[id] EXCEPT !.read = TRUE]
                       ELSE notifications[id]]
            /\ resp' = [Response("markAllRead", 200, caller.user, "notifications",
                                 None, None) EXCEPT !.request = Some("mark-all-read")]
    /\ UNCHANGED <<now, users, customers, orders, measurements, createdBy,
                   flwConfigured, tasks, blobs>>

\* router.put('/:id') with a segment that is no ObjectId: the phone checks,
\* then findOneAndUpdate throws the CastError and the catch answers 400
PutNotificationCastError(phone, segment) ==
    LET caller == Caller(phone) IN
    /\ resp' = [Response("putNotification", IF caller.code # 201 THEN caller.code ELSE 400,
                         caller.user, "notifications", None, None)
                   EXCEPT !.request = Some(segment)]
    /\ UNCHANGED <<now, users, records, flwConfigured, tasks, blobs>>

\* PUT /api/notifications/<segment>
PutNotifications(segment, phone, body) ==
    IF RouteOf(NotificationPutRoutes, segment) = "/:id"
    THEN IF CastToObjectId(segment) = 0
         THEN PutNotificationCastError(phone, segment)
         ELSE PutNotification(phone, CastToObjectId(segment), body)
    ELSE PutMarkAllRead(phone)

\* what the tenants send to the notifications router
Segments == {"1", "2", "mark-all-read"}
ReadBodies == {<<>>, [read |-> TRUE]}
ReminderBody == [type |-> "birthday", title |-> "due", message |-> "soon"]

NextNotifications ==
    \/ \E phone \in RecordPhones : PostSignup(phone)
    \/ \E phone \in RecordPhones : PostNotification(phone, ReminderBody)
    \/ \E phone \in RecordPhones, id \in RecordIds : GetNotification(phone, id)
    \/ \E phone \in RecordPhones, id \in RecordIds : DeleteNotification(phone, id)
    \/ \E segment \in Segments, phone \in RecordPhones \cup {None, Some(PhoneShort)},
          body \in ReadBodies : PutNotifications(segment, phone, body)

SpecNotifications == Init /\ [][NextNotifications]_vars

-----------------------------------------------------------------------------
(* Requests with well-formed and malformed phones, over all the routers *)

\* twelve digits
PhoneLong == <<"0", "8", "0", "3", "0", "0", "0", "0", "0", "0", "1", "1">>

\* phones that do not have 11 digits once the non-digits are stripped
MalformedPhones == {Some(PhoneShort), Some(PhoneLong)}

\* the requests of the auth, subscription and payment routers with a phone
AccountRequest(phone) ==
    \/ PostSignup(phone)
    \/ GetSubscriptionStatus(phone)
    \/ PostSubscriptionUpgrade(phone, "monthly")
    \/ PostPaymentInitialize(phone, "monthly", 5000, "ST-1", "success")
    \/ PutMe(phone, [name |-> "Ada"])
    \/ PutSettings(phone, Some(FALSE), None)
    \/ handleAccountDeletionByPhone(phone, "none", FALSE, {}, FALSE)

\* the requests of the customers, orders, measurements and notifications
\* routers with a phone
CustomerRequest(phone) ==
    \/ RecordCount < MaxRecords /\ PostCustomer(phone, [name |-> "Ada"])
    \/ \E id \in RecordIds : GetCustomer(phone, id)
    \/ \E id \in RecordIds : PutCustomer(phone, id, [name |-> "Bisi"])
    \/ \E id \in RecordIds : DeleteCustomer(phone, id)

OrderRequest(phone) ==
    \/ /\ RecordCount < MaxRecords
       /\ PostOrder(phone, [customerId |-> 1, amountCharged |-> 9, balance |-> 9])
    \/ \E id \in RecordIds : GetOrder(phone, id)
    \/ \E id \in RecordIds : PutOrderMarkPaid(phone, id)

MeasurementRequest(phone) ==
    \/ /\ RecordCount < MaxRecords
       /\ PostMeasurement(phone, [customerId |-> 1, category |-> "shirt"])
    \/ \E id \in RecordIds : GetMeasurement(phone, id)

NotificationRequest(phone) ==
    \/ RecordCount < MaxRecords /\ PostNotification(phone, ReminderBody)
    \/ \E id \in RecordIds : GetNotification(phone, id)
    \/ \E id \in RecordIds : PutNotification(phone, id, [read |-> TRUE])

NextPhones ==
    \/ \E phone \in MalformedPhones \cup {Some(PhoneA)} : AccountRequest(phone)
    \/ \E phone \in MalformedPhones \cup {Some(PhoneA)} : CustomerRequest(phone)
    \/ \E phone \in MalformedPhones \cup {Some(PhoneA)} : OrderRequest(phone)
    \/ \E phone \in MalformedPhones \cup {Some(PhoneA)} : MeasurementRequest(phone)
    \/ \E phone \in MalformedPhones \cup {Some(PhoneA)} : NotificationRequest(phone)

SpecPhones == Init /\ [][NextPhones]_vars

-----------------------------------------------------------------------------
(* The status query and the payment callback as the steps they are: each   *)
(* reads the user document, changes its copy and saves it, and other       *)
(* requests are served between the read and the save.                      *)

\* document.save(): the paths of the copy that differ from what was read are
\* written to the stored document (an array the copy was pushed to is
\* extended by what was pushed); the other paths of the stored document stay
SaveModified(stored, read, doc) ==
    [f \in DOMAIN stored |->
        IF doc[f] = read[f] THEN stored[f]
        ELSE IF f = "paymentHistory"
        THEN stored[f] \o SubSeq(doc[f], Len(read[f]) + 1, Len(doc[f]))
        ELSE doc[f]]

\* GET /api/subscription/status up to its user.save(): the document is read
\* and the expiry check is made on the copy; without a change there is no
\* save and the answer is sent
StatusRead(phone) ==
    /\ "status" \notin DOMAIN tasks
    /\ Has(getUserFromPhone(phone))
    /\ LET id == Val(getUserFromPhone(phone))
           doc == StatusWrite(users[id], now)
       IN  IF doc = users[id]
           THEN /\ resp' = Response("status", 200, Some(id), "users", Some(id),
                                    Some(StatusBody(users[id], now)))
                /\ UNCHANGED tasks
           ELSE /\ tasks' = Put(tasks, "status",
                                [op |-> "status", id |-> id, read |-> users[id],
                                 doc |-> doc, body |-> StatusBody(users[id], now)])
                /\ resp' = NoResponse
    /\ UNCHANGED <<now, users, records, flwConfigured, blobs>>

\* the user.save() of the status query and its answer
StatusSave ==
    /\ "status" \in DOMAIN tasks
    /\ LET task == tasks["status"] IN
       /\ task.id \in DOMAIN users
       /\ users' = [users EXCEPT ![task.id] = SaveModified(@, task.read, task.doc)]
       /\ resp' = Response("status", 200, Some(task.id), "users", Some(task.id),
                           Some(task.body))
    /\ tasks' = Drop(tasks, "status")
    /\ UNCHANGED <<now, records, flwConfigured, blobs>>

\* GET /api/payment/callback up to its user.save()
CallbackRead(txRef, transactionId, status, v) ==
    LET outcome == CallbackOutcome(txRef, transactionId, status, v) IN
    /\ "callback" \notin DOMAIN tasks
    /\ IF Has(outcome.save)
       THEN /\ tasks' = Put(tasks, "callback",
                            [op |-> "callback", id |-> Val(outcome.save)[1],
                             read |-> users[Val(outcome.save)[1]],
                             doc |-> Val(outcome.save)[2], page |-> outcome.page,
                             gateway |-> GatewayReportsSuccessful(v)])
            /\ resp' = NoResponse
       ELSE /\ resp' = [Response("callback", 200, None, "users", None,
                                 Some(outcome.page))
                           EXCEPT !.gateway = GatewayReportsSuccessful(v)]
            /\ UNCHANGED tasks
    /\ UNCHANGED <<now, users, records, flwConfigured, blobs>>

\* the user.save() of the callback and the page it renders
CallbackSave ==
    /\ "callback" \in DOMAIN tasks
    /\ LET task == tasks["callback"] IN
       /\ task.id \in DOMAIN users
       /\ users' = [users EXCEPT ![task.id] = SaveModified(@, task.read, task.doc)]
       /\ resp' = [Response("callback", 200, Some(task.id), "users", None,
                            Some(task.page))
                      EXCEPT !.gateway = task.gateway]
    /\ tasks' = Drop(tasks, "callback")
    /\ UNCHANGED <<now, records, flwConfigured, blobs>>

\* the end of the trial taken on 2024-01-31 has passed at the first instant,
\* the end of a month bought then at the second
InterleavedInstants == {At(2024, 3, 2, 0), At(2024, 4, 3, 0)}

InterleavedTick ==
    /\ \E t \in InterleavedInstants : t > now /\ now' = t
    /\ resp' = NoResponse
    /\ UNCHANGED <<users, records, flwConfigured, tasks, blobs>>

\* the answers of the verification call while the status is queried
InterleavedVerifyResults ==
    {VerifyAnswer("success", Some(Transaction(ts, Some(ph), "monthly", 5000))) :
        ts \in {"successful", "failed"}, ph \in {PhoneA, PhoneB}}

NextInterleaved ==
    \/ InterleavedTick
    \/ \E phone \in RecordPhones : PostSignup(phone)
    \/ \E phone \in RecordPhones : StatusRead(phone)
    \/ StatusSave
    \/ \E v \in InterleavedVerifyResults :
            /\ HistoryBelow(MaxHistory)
            /\ CallbackRead(Some("ST-1"), Some("7001"), "", v)
    \/ CallbackSave

SpecInterleaved == Init /\ [][NextInterleaved]_vars

-----------------------------------------------------------------------------
(* The account deletion as the steps it is: every database call of the     *)
(* workflow is awaited, and other requests are served between the calls.   *)

\* the history of the documents that are left
CreatedByOf(c, o, m, n) ==
    LET left == [customers |-> c, orders |-> o, measurements |-> m, notifications |-> n]
    IN  [key \in {k \in DOMAIN createdBy : k[2] \in DOMAIN left[k[1]]} |-> createdBy[key]]

\* POST /delete-account-by-phone up to the first call of the workflow: the
\* phone is checked and the tenant found
DeletionBegin(phone) ==
    /\ "deletion" \notin DOMAIN tasks
    /\ Has(phone) /\ Len(phoneDigits(Val(phone))) = 11
    /\ Has(FindUserByPhone(phoneDigits(Val(phone))))
    /\ tasks' = Put(tasks, "deletion",
                    [op |-> "deleteAccountByPhone",
                     id |-> Val(FindUserByPhone(phoneDigits(Val(phone)))), pc |-> 1])
    /\ resp' = NoResponse
    /\ UNCHANGED <<now, users, records, flwConfigured, blobs>>

\* the next call of the "delete all related data" block: a find and the
\* deletion of the blobs of what it found, or a deleteMany
DeletionStep ==
    /\ "deletion" \in DOMAIN tasks
    /\ tasks["deletion"].pc \in DOMAIN RelatedDataSteps
    /\ LET userId == tasks["deletion"].id
           step == RelatedDataSteps[tasks["deletion"].pc]
           c == IF step = "Customer.deleteMany"
                THEN DeleteMany(customers, userId) ELSE customers
           o == IF step = "Order.deleteMany" THEN DeleteMany(orders, userId) ELSE orders
           m == IF step = "Measurement.deleteMany"
                THEN DeleteMany(measurements, userId) ELSE measurements
           n == IF step = "Notification.deleteMany"
                THEN DeleteMany(notifications, userId) ELSE notifications
       IN  /\ blobs' = CASE step = "Customer.find" ->
                                DeleteBlobs(blobs, CustomerPhotos(userId), {})
                         [] step = "Order.find" ->
                                DeleteBlobs(blobs, OrderImages(userId), {})
                         [] step = "Measurement.find" ->
                                DeleteBlobs(blobs, MeasurementPhotos(userId), {})
                         [] OTHER -> blobs
           /\ customers' = c
           /\ orders' = o
           /\ measurements' = m
           /\ notifications' = n
           /\ createdBy' = CreatedByOf(c, o, m, n)
    /\ tasks' = [tasks EXCEPT !["deletion"].pc = @ + 1]
    /\ resp' = NoResponse
    /\ UNCHANGED <<now, users, flwConfigured>>

\* the profile image, User.findByIdAndDelete and the answer
DeletionEnd ==
    /\ "deletion" \in DOMAIN tasks
    /\ tasks["deletion"].pc = Len(RelatedDataSteps) + 1
    /\ LET userId == tasks["deletion"].id IN
       /\ userId \in DOMAIN users
       /\ blobs' = DeleteBlobs(blobs, {users[userId].profileImage}, {})
       /\ users' = Drop(users, userId)
       /\ resp' = Response(tasks["deletion"].op, 200, Some(userId), "users",
                           Some(userId), None)
    /\ tasks' = Drop(tasks, "deletion")
    /\ UNCHANGED <<now, records, flwConfigured>>

\* what the tenant's devices send while the account is deleted
NextRace ==
    \/ RecordCount = 0 /\ PostSignup(Some(PhoneA))
    \/ \E body \in {[name |-> "Ada"]} : PostCustomer(Some(PhoneA), body)
    \/ \E body \in {SweepOrderBody} : PostOrder(Some(PhoneA), body)
    \/ \E body \in {[customerId |-> 1, category |-> "shirt"]} :
            PostMeasurement(Some(PhoneA), body)
    \/ \E body \in {ReminderBody} : PostNotification(Some(PhoneA), body)
    \/ DeletionBegin(Some(PhoneA))
    \/ DeletionStep
    \/ DeletionEnd

SpecRace == Init /\ [][NextRace]_vars

-----------------------------------------------------------------------------
(* POST /api/auth/upload-profile-image and /upload-avatar *)

\* the keys uploadToS3 can generate: profile-images/<random UUID>-<name>
UploadKeys == {"p1", "p2", "p3"}

\* a generated key is new: no object has it and no document names it
FreshKeys ==
    {key \in UploadKeys :
        /\ key \notin blobs
        /\ \A id \in DOMAIN users : users[id].profileImage # Some(Url(key))}

\* uploadToS3(buffer, name, type): the bucket with the object and the public
\* URL, or None when PutObject fails and the error is thrown
uploadToS3(bucket, key, uploadFails) ==
    IF uploadFails THEN [bucket |-> bucket, url |-> None]
    ELSE [bucket |-> bucket \cup {key}, url |-> Some(Url(key))]

\* handleImageUpload: file is whether the request carries one, key the key
\* the upload generates, deleteFails, uploadFails and saveFails whether
\* DeleteObject, PutObject and user.save() fail
handleImageUpload(phone, file, key, deleteFails, uploadFails, saveFails) ==
    /\ IF ~Has(phone) \/ ~file
       THEN /\ resp' = Response("uploadProfileImage", 400, None, "users", None, None)
            /\ UNCHANGED <<users, blobs>>
       ELSE IF Len(phoneDigits(Val(phone))) # 11
       THEN /\ resp' = Response("uploadProfileImage", 400, None, "users", None, None)
            /\ UNCHANGED <<users, blobs>>
       ELSE LET found == FindUserByPhone(phoneDigits(Val(phone))) IN
            IF ~Has(found)
            THEN /\ resp' = Response("uploadProfileImage", 404, None, "users", None, None)
                 /\ UNCHANGED <<users, blobs>>
            ELSE LET id == Val(found)
                     old == users[id].profileImage
                     deleted == deleteFromS3(blobs, old,
                                             IF deleteFails /\ Has(old)
                                             THEN {Val(old)[2]} ELSE {})
                     uploaded == uploadToS3(deleted, key, uploadFails)
                 IN  /\ key \in FreshKeys
                     /\ blobs' = uploaded.bucket
                     /\ IF ~Has(uploaded.url) \/ saveFails
                        THEN /\ UNCHANGED users
                             /\ resp' = Response("uploadProfileImage", 500, found,
                                                 "users", found, None)
                        ELSE /\ users' = [users EXCEPT ![id].profileImage = uploaded.url]
                             /\ resp' = Response("uploadProfileImage", 200, found,
                                                 "users", found, Some(users'[id]))
    /\ UNCHANGED <<now, records, flwConfigured, tasks>>

\* what the tenants send to the upload routes
UploadPhones == {None, Some(PhoneShort), Some(PhoneA), Some(PhoneB)}

NextUpload ==
    \/ \E phone \in RecordPhones : PostSignup(phone)
    \/ \E phone \in UploadPhones, file \in BOOLEAN, key \in UploadKeys :
            handleImageUpload(phone, file, key, FALSE, FALSE, FALSE)
    \/ \E phone \in RecordPhones, key \in UploadKeys,
          deleteFails, uploadFails, saveFails \in BOOLEAN :
            handleImageUpload(phone, TRUE, key, deleteFails, uploadFails, saveFails)

SpecUpload == Init /\ [][NextUpload]_vars

-----------------------------------------------------------------------------
(* Properties of the tenant-scoped collections (SpecRecords) *)

CollectionOf(kind) ==
    CASE kind = "customers" -> customers
      [] kind = "orders" -> orders
      [] kind = "measurements" -> measurements
      [] kind = "notifications" -> notifications
      [] OTHER -> <<>>

\* the routes that name one document by its _id
ByIdRoutes ==
    {"getCustomer", "putCustomer", "deleteCustomer",
     "getOrder", "markPaid", "putOrder", "deleteOrder",
     "getMeasurement", "putMeasurement", "deleteMeasurement",
     "getNotification", "putNotification", "deleteNotification"}

\* every document of old that the caller does not own is in new, unchanged
OthersUntouched(old, new, caller) ==
    \A id \in DOMAIN old :
        old[id].userId # caller => id \in DOMAIN new /\ new[id] = old[id]

\* C1: a get-by-id, update, mark-paid or delete request authenticated as one
\* tenant leaves every document whose userId is another's as it was, and
\* when the document it names has another's userId it answers 404 without
\* a document.
C1_CrossTenantRequestFails ==
    [][(resp'.op \in ByIdRoutes /\ Has(resp'.user)) =>
         LET caller == Val(resp'.user)
             coll == CollectionOf(resp'.kind)
             id == Val(resp'.id)
         IN  /\ OthersUntouched(customers, customers', caller)
             /\ OthersUntouched(orders, orders', caller)
             /\ OthersUntouched(measurements, measurements', caller)
             /\ OthersUntouched(notifications, notifications', caller)
             /\ (id \in DOMAIN coll /\ coll[id].userId # caller) =>
                    (resp'.code = 404 /\ resp'.body = None)]_vars

\* a tenant has just asked to update or delete a document that exists and
\* belongs to another registered tenant, and got 404
C1_Witness ==
    /\ resp.op \in ByIdRoutes \ {"getCustomer", "getOrder", "getMeasurement",
                                 "getNotification"}
    /\ Has(resp.user)
    /\ resp.code = 404
    /\ Val(resp.id) \in DOMAIN CollectionOf(resp.kind)
    /\ CollectionOf(resp.kind)[Val(resp.id)].userId # Val(resp.user)
    /\ CollectionOf(resp.kind)[Val(resp.id)].userId \in DOMAIN users

\* C2: the userId of every customer, order, measurement and notification is
\* the tenant that was authenticated when the document was created.
C2_OwnerIsCreator ==
    \A key \in DOMAIN createdBy :
        /\ key[2] \in DOMAIN CollectionOf(key[1])
        /\ CollectionOf(key[1])[key[2]].userId = createdBy[key]

-----------------------------------------------------------------------------
(* Properties of the subscription lifecycle (Spec) *)

Tenants == {id \in DOMAIN users : ~users[id].isAdmin}

\* C3: every tenant has exactly one of the two pairs of dates: the trial
\* pair and no subscription date, or the subscription pair and no trial date.
C3_ExactlyOnePairOfDates ==
    \A id \in Tenants :
        LET u == users[id] IN
        \/ /\ Has(u.trialStartDate) /\ Has(u.trialEndDate)
           /\ ~Has(u.subscriptionStartDate) /\ ~Has(u.subscriptionEndDate)
        \/ /\ ~Has(u.trialStartDate) /\ ~Has(u.trialEndDate)
           /\ Has(u.subscriptionStartDate) /\ Has(u.subscriptionEndDate)

\* C4: a tenant whose status is expired becomes active again only by a
\* payment callback whose verification the gateway answered as successful.
C4_ExpiredUntilVerifiedPayment ==
    [][\A id \in DOMAIN users :
         (/\ users[id].subscriptionStatus = "expired"
          /\ id \in DOMAIN users'
          /\ users'[id].subscriptionStatus = "active")
         => (/\ resp'.op = "callback"
             /\ resp'.gateway
             /\ Val(resp'.body).success)]_vars

\* the status query answered 200 for tenant id
StatusAnswered(id) ==
    /\ resp.op = "status"
    /\ resp.code = 200
    /\ resp.user = Some(id)

\* C8 as stated: for every trial tenant the status query answers expired
\* and daysRemaining 0 when now is after trialEndDate, and active and
\* daysRemaining of at least 1 when now is a day or more before it.
C8_TrialStatusAnswer ==
    \A id \in DOMAIN users :
        (/\ StatusAnswered(id)
         /\ users[id].subscriptionType = "trial"
         /\ Has(users[id].trialEndDate))
        => LET answer == Val(resp.body)
               trialEndDate == Val(users[id].trialEndDate)
           IN  /\ now > trialEndDate =>
                    (answer.subscriptionStatus = "expired" /\ answer.daysRemaining = 0)
               /\ now + TicksPerDay <= trialEndDate =>
                    (answer.subscriptionStatus = "active" /\ answer.daysRemaining >= 1)

\* C8, amended: for every trial tenant the status query answers
\* daysRemaining 0 when now is after trialEndDate, with the status expired
\* unless the stored status is cancelled; and daysRemaining of at least 1
\* when now is a day or more before trialEndDate, with the status active
\* when the stored status is active.
C8_TrialStatusAnswerOfStoredStatus ==
    \A id \in DOMAIN users :
        (/\ StatusAnswered(id)
         /\ users[id].subscriptionType = "trial"
         /\ Has(users[id].trialEndDate))
        => LET answer == Val(resp.body)
               trialEndDate == Val(users[id].trialEndDate)
               stored == users[id].subscriptionStatus
           IN  /\ now > trialEndDate =>
                    /\ answer.daysRemaining = 0
                    /\ stored # "cancelled" => answer.subscriptionStatus = "expired"
               /\ now + TicksPerDay <= trialEndDate =>
                    /\ answer.daysRemaining >= 1
                    /\ stored = "active" => answer.subscriptionStatus = "active"

\* a trial tenant has just been answered expired, 0 days, after its trial end
C8_Witness ==
    \E id \in DOMAIN users :
        /\ StatusAnswered(id)
        /\ users[id].subscriptionType = "trial"
        /\ Has(users[id].trialEndDate)
        /\ now > Val(users[id].trialEndDate)
        /\ Val(resp.body).subscriptionStatus = "expired"
        /\ Val(resp.body).daysRemaining = 0

\* the end date the status query compares now with
RelevantEndDate(u) ==
    IF u.subscriptionType = "trial" THEN u.trialEndDate ELSE u.subscriptionEndDate

OnSignupTrial(u) ==
    /\ u.subscriptionType = "trial"
    /\ u.subscriptionStatus \in {"active", "expired"}
    /\ u.trialStartDate = Some(u.createdAt)
    /\ u.trialEndDate = Some(u.createdAt + 30 * TicksPerDay)
    /\ ~Has(u.subscriptionStartDate) /\ ~Has(u.subscriptionEndDate)
    /\ u.paymentHistory = <<>>

-----------------------------------------------------------------------------
(* Properties of the payment callback (SpecPayment) *)

\* C5: no transaction reference occurs twice in a tenant's paymentHistory.
C5_OneEntryPerTxRef ==
    \A id \in DOMAIN users :
        \A i, j \in 1 .. Len(users[id].paymentHistory) :
            users[id].paymentHistory[i].txRef = users[id].paymentHistory[j].txRef
            => i = j

\* C6: a callback whose verification the gateway did not answer as
\* successful changes no user document and renders an unsuccessful page.
C6_UnverifiedCallbackChangesNothing ==
    [][(resp'.op = "callback" /\ ~resp'.gateway) =>
         /\ users' = users
         /\ ~Val(resp'.body).success]_vars

\* a callback has just been answered as failed while a tenant has a payment
\* pending
C6_Witness ==
    /\ resp.op = "callback"
    /\ ~resp.gateway
    /\ Val(resp.body).paymentStatus = "failed"
    /\ \E id \in DOMAIN users : Has(users[id].pendingPayment)

\* e is n calendar months after t: the same time of the same day n months
\* on, or as many days into the month after as that day is past the month's
\* end
MonthsAfter(t, e, n) ==
    LET months == getFullYear(t) * 12 + getMonth(t) + n
        y == months \div 12
        m == months % 12
    IN  /\ TimeWithinDay(e) = TimeWithinDay(t)
        /\ IF getDate(t) <= DaysInMonth(y, m)
           THEN /\ getFullYear(e) * 12 + getMonth(e) = months
                /\ getDate(e) = getDate(t)
           ELSE /\ getFullYear(e) * 12 + getMonth(e) = months + 1
                /\ getDate(e) = getDate(t) - DaysInMonth(y, m)

MonthsOfTier(tier) ==
    CASE tier = "monthly" -> 1 [] tier = "quarterly" -> 3 [] tier = "yearly" -> 12

\* C7: after a confirmed payment for a paid tier the tenant has that tier,
\* status active, the subscription starting now and ending one, three or
\* twelve calendar months later, no trial date, no pendingPayment, and its
\* earlier paymentHistory with one more entry: the callback's txRef, the
\* amount, the tier and the status successful.
C7_ConfirmedPayment ==
    [][(/\ resp'.op = "callback"
        /\ Val(resp'.body).success
        /\ Val(resp'.body).subscriptionType \in PaidTiers) =>
         LET id == Val(resp'.user)
             page == Val(resp'.body)
             before == users[id].paymentHistory
             u == users'[id]
         IN  /\ u.subscriptionType = page.subscriptionType
             /\ u.subscriptionStatus = "active"
             /\ u.subscriptionStartDate = Some(now)
             /\ Has(u.subscriptionEndDate)
             /\ MonthsAfter(now, Val(u.subscriptionEndDate),
                            MonthsOfTier(page.subscriptionType))
             /\ ~Has(u.trialStartDate) /\ ~Has(u.trialEndDate)
             /\ ~Has(u.pendingPayment)
             /\ Len(u.paymentHistory) = Len(before) + 1
             /\ SubSeq(u.paymentHistory, 1, Len(before)) = before
             /\ u.paymentHistory[Len(before) + 1].txRef = Val(page.txRef)
             /\ u.paymentHistory[Len(before) + 1].amount = Val(page.amount)
             /\ u.paymentHistory[Len(before) + 1].subscriptionType = page.subscriptionType
             /\ u.paymentHistory[Len(before) + 1].status = "successful"]_vars

\* a tenant with a payment in its history has just paid for a month on the
\* 31st, and the month ends on another day of the month
C7_Witness ==
    \E id \in DOMAIN users :
        /\ resp.op = "callback"
        /\ resp.user = Some(id)
        /\ Val(resp.body).success
        /\ users[id].subscriptionType = "monthly"
        /\ users[id].subscriptionStartDate = Some(now)
        /\ getDate(Val(users[id].subscriptionEndDate)) # getDate(now)
        /\ Len(users[id].paymentHistory) = 2

-----------------------------------------------------------------------------
(* Properties of account deletion (SpecDeletion) *)

DeletionRoutes == {"deleteAccount", "deleteAccountByPhone"}

\* the tenant-scoped records of a collection tuple that carry a userId
RecordsOf(c, o, m, n, userId) ==
    {<<"customers", id>> : id \in FindByUser(c, userId)}
        \cup {<<"orders", id>> : id \in FindByUser(o, userId)}
        \cup {<<"measurements", id>> : id \in FindByUser(m, userId)}
        \cup {<<"notifications", id>> : id \in FindByUser(n, userId)}

\* C11: an operation that removes a tenant's user document is one of the
\* account-deletion entry points, or else it leaves no customer, order,
\* measurement or notification carrying that tenant's userId
C11_TenantRemovedWithItsRecords ==
    [][\A id \in DOMAIN users \ DOMAIN users' :
            \/ resp'.op \in DeletionRoutes
            \/ RecordsOf(customers', orders', measurements', notifications', id) = {}]_vars


\* the deletion workflow ran for the tenant resp.user and has answered
WorkflowAnswered ==
    /\ resp.op \in DeletionRoutes
    /\ Has(resp.user)
    /\ resp.code # 401

\* C12: when an account-deletion entry point answers success, the tenant's
\* user document is absent and no customer, order, measurement or
\* notification carries its userId
C12_SuccessLeavesNothing ==
    (WorkflowAnswered /\ resp.code = 200)
        => /\ Val(resp.user) \notin DOMAIN users
           /\ RecordsOf(customers, orders, measurements, notifications,
                        Val(resp.user)) = {}

\* C13: when a bulk deletion of the tenant's records throws, the request is
\* answered with an error and the tenant's user document is still there
C13_FailedBulkDeletionAborts ==
    (WorkflowAnswered /\ Val(resp.body).failAt # "none")
        => /\ resp.code >= 400
           /\ Val(resp.user) \in DOMAIN users


\* the keys of the blobs a tenant's documents refer to
ReferencedKeys(userId) ==
    {Val(url)[2] : url \in {u \in CustomerPhotos(userId) \cup OrderImages(userId)
                                  \cup MeasurementPhotos(userId)
                                  \cup {users[userId].profileImage} : Has(u)}}

\* C14: when no database call throws, account deletion answers success
\* whichever blob deletions fail: the tenant and all its records are removed
\* and every referenced blob whose deletion did not fail is removed
C14_BlobFailuresTolerated ==
    [][(/\ resp'.op \in DeletionRoutes
        /\ Has(resp'.user)
        /\ resp'.code # 401
        /\ Val(resp'.body).failAt = "none"
        /\ ~Val(resp'.body).userFails)
        => /\ resp'.code = 200
           /\ Val(resp'.user) \notin DOMAIN users'
           /\ RecordsOf(customers', orders', measurements', notifications',
                        Val(resp'.user)) = {}
           /\ blobs' = blobs \ (ReferencedKeys(Val(resp'.user)) \ Val(resp'.body).failing)
       ]_vars

\* an account deletion succeeded although the deletion of one of the
\* tenant's blobs failed and that of another went through
C14_Witness ==
    /\ WorkflowAnswered
    /\ resp.code = 200
    /\ Val(resp.body).failAt = "none"
    /\ Val(resp.body).logged \cap Val(resp.body).failing # {}
    /\ Val(resp.body).logged \ Val(resp.body).failing # {}


\* C15: an account-deletion request whose 11-digit phone belongs to no
\* tenant is answered 404 and changes no user, record or blob; the same
\* request repeated right after a completed deletion is answered 200 or 404
\* and changes nothing either
C15_UnknownPhoneDeletesNothing ==
    [][(resp'.op \in DeletionRoutes /\ Has(resp'.body))
        => /\ (\A id \in DOMAIN users : users[id].phone # Val(resp'.body).phone)
                => /\ resp'.code = 404
                   /\ UNCHANGED <<users, records, blobs>>
           /\ (/\ resp.op \in DeletionRoutes
               /\ resp.code = 200
               /\ Val(resp.body).phone = Val(resp'.body).phone)
                => /\ resp'.code \in {200, 404}
                   /\ UNCHANGED <<users, records, blobs>>
       ]_vars

\* a deletion request for a deleted tenant's phone was answered 404 while
\* records and blobs were there to lose
C15_Witness ==
    /\ resp.op \in DeletionRoutes
    /\ resp.code = 404
    /\ Val(resp.body).phone = PhoneA
    /\ RecordCount > 0
    /\ blobs # {}


\* the tenants a deletion request's phone names, before the request
Named(request) == {id \in DOMAIN users : users[id].phone = request.phone}

\* the stored password of a user is the hash of the one the request sent
PasswordMatches(id, request) ==
    Has(request.password) /\ users[id].password = <<"bcrypt", Val(request.password)>>

\* C16: the password-protected entry point answers 401 and changes no user,
\* record or blob when the password is not the tenant's, and it changes
\* something only when the password is the tenant's
C16_DeletionNeedsThePassword ==
    [][(resp'.op = "deleteAccount" /\ Has(resp'.body))
        => LET request == Val(resp'.body) IN
           /\ (Named(request) # {}
                    /\ \A id \in Named(request) : ~PasswordMatches(id, request))
                => /\ resp'.code = 401
                   /\ UNCHANGED <<users, records, blobs>>
           /\ <<users, records, blobs>>' # <<users, records, blobs>>
                => \E id \in Named(request) : PasswordMatches(id, request)
       ]_vars

\* a deletion request with a wrong password was refused while the tenant
\* had records to lose
C16_Witness ==
    /\ resp.op = "deleteAccount"
    /\ resp.code = 401
    /\ Val(resp.body).password = Some("guess")
    /\ RecordsOf(customers, orders, measurements, notifications, Val(resp.user)) # {}


-----------------------------------------------------------------------------
(* The answer for another tenant's record (SpecRecords) *)

\* C17: a request that names a customer by id, here the listing of the
\* customer's orders, is answered 404 when the customer exists and its
\* userId is not the caller's
C17_ForeignRecordIsNotFound ==
    (/\ resp.op = "getOrdersByCustomer"
     /\ Has(resp.user)
     /\ Val(resp.id) \in DOMAIN customers
     /\ customers[Val(resp.id)].userId # Val(resp.user))
        => resp.code = 404


-----------------------------------------------------------------------------
(* Properties of the broadcasts (SpecBroadcast) *)

\* the notifications a step has created
Created == DOMAIN notifications' \ DOMAIN notifications

\* C18: whatever its criterion, a broadcast creates notifications for users
\* that are not admins only, at most one for each of them, as many as it
\* reports, and leaves the notifications there were as they were
C18_OneNotificationPerTenantNoAdmin ==
    [][resp'.op = "broadcast" =>
        /\ \A id \in Created :
                /\ notifications'[id].userId \in DOMAIN users
                /\ ~users[notifications'[id].userId].isAdmin
        /\ \A i, j \in Created :
                notifications'[i].userId = notifications'[j].userId => i = j
        /\ \A id \in DOMAIN notifications :
                id \in DOMAIN notifications' /\ notifications'[id] = notifications[id]
        /\ Has(resp'.body) => Val(resp'.body).count = Cardinality(Created)
        /\ ~Has(resp'.body) => Created = {}
       ]_vars

\* a broadcast to everybody has notified tenant A and nobody else while
\* tenant B carried the admin flag
C18_Witness ==
    /\ resp.op = "broadcast"
    /\ resp.code = 200
    /\ Val(resp.body).type = "order_update"
    /\ Val(resp.body).count = 1
    /\ {"u1", "u2"} \subseteq DOMAIN users
    /\ users["u2"].isAdmin
    /\ \E id \in DOMAIN notifications : notifications[id].userId = "u1"


\* the end date that is populated, the trial's when both are
PopulatedEndDate(u) ==
    IF Has(u.trialEndDate) THEN u.trialEndDate ELSE u.subscriptionEndDate

\* the users the notifications a step has created are for
Notified == {notifications'[id].userId : id \in Created}

\* the broadcast that has just been sent, by its normalised type
Broadcast(type) ==
    /\ resp'.op = "broadcast"
    /\ resp'.code = 200
    /\ Val(resp'.body).type = type

\* C19: a broadcast to expiring_soon notifies exactly the users that are not
\* admins, are stored as active and have their populated end date between
\* now and seven days from now, both included
C19_ExpiringSoonByPopulatedEndDate ==
    [][Broadcast("expiring_soon") =>
        Notified = {id \in DOMAIN users :
                        /\ ~users[id].isAdmin
                        /\ users[id].subscriptionStatus = "active"
                        /\ Has(PopulatedEndDate(users[id]))
                        /\ Val(PopulatedEndDate(users[id])) >= now
                        /\ Val(PopulatedEndDate(users[id])) <= now + 7 * TicksPerDay}
       ]_vars

\* C20: a broadcast to expired notifies exactly the users that are not admins
\* and are stored as expired, or are stored as active with their populated
\* end date before now
C20_ExpiredByPopulatedEndDate ==
    [][Broadcast("expired") =>
        Notified = {id \in DOMAIN users :
                        /\ ~users[id].isAdmin
                        /\ \/ users[id].subscriptionStatus = "expired"
                           \/ /\ users[id].subscriptionStatus = "active"
                              /\ Has(PopulatedEndDate(users[id]))
                              /\ Val(PopulatedEndDate(users[id])) < now}
       ]_vars


\* C21: a broadcast asked for trial_users, or for trial_user, notifies
\* exactly the users that are not admins, have type trial and are stored as
\* active, and the notifications it stores have the type trial_users
C21_TrialUsersAndItsTypo ==
    [][(/\ resp'.op = "broadcast"
        /\ resp'.code = 200
        /\ Val(resp'.body).originalType \in {"trial_user", "trial_users"})
        => /\ Notified = {id \in DOMAIN users :
                            /\ ~users[id].isAdmin
                            /\ users[id].subscriptionType = "trial"
                            /\ users[id].subscriptionStatus = "active"}
           /\ \A id \in Created : notifications'[id].type = "trial_users"
       ]_vars

\* a broadcast asked for trial_user has notified one of two tenants
C21_Witness ==
    /\ resp.op = "broadcast"
    /\ resp.code = 200
    /\ Val(resp.body).originalType = "trial_user"
    /\ Val(resp.body).count = 1
    /\ {"u1", "u2"} \subseteq DOMAIN users
    /\ ~users["u1"].isAdmin /\ ~users["u2"].isAdmin
    /\ \E id \in DOMAIN notifications : notifications[id].type = "trial_users"


\* C22: a broadcast creates one notification for every user it selected and
\* none for any other user; each has the user as userId, the title and the
\* message of the request, the resolved type, and is unread
C22_OneRecordPerTarget ==
    [][(resp'.op = "broadcast" /\ resp'.code = 200) =>
        LET request == Val(resp'.body) IN
        /\ Notified = BroadcastTargets(request.type, now)
        /\ \A userId \in Notified :
                Cardinality({id \in Created : notifications'[id].userId = userId}) = 1
        /\ \A id \in Created :
                /\ notifications'[id].title = request.title
                /\ notifications'[id].message = request.message
                /\ notifications'[id].type = request.type
                /\ notifications'[id].type \in NotificationTypes
                /\ notifications'[id].read = FALSE
       ]_vars

\* a broadcast has notified both tenants and not the administrator
C22_Witness ==
    /\ resp.op = "broadcast"
    /\ resp.code = 200
    /\ Val(resp.body).count = 2
    /\ \A userId \in {"u1", "u2"} :
            \E id \in DOMAIN notifications :
                /\ notifications[id].userId = userId
                /\ notifications[id].title = "Hello"
                /\ ~notifications[id].read
    /\ \A id \in DOMAIN notifications : notifications[id].userId # AdminId


\* C23: a broadcast that passed validation answers success whatever the push
\* service did, keeps the notifications it created, and its answer gives the
\* number of notifications created and, when it pushed, the numbers of push
\* successes and push failures
C23_CountsReported ==
    [][(resp'.op = "broadcast" /\ Has(resp'.body)) =>
        LET request == Val(resp'.body) IN
        /\ resp'.code = 200
        /\ Cardinality(Created) = request.count
        /\ request.answer.count = request.count
        /\ Has(request.pushResult) =>
                {"success", "failed"} \subseteq DOMAIN request.answer
       ]_vars


-----------------------------------------------------------------------------
(* Properties of the administrator's tier changes (SpecAdmin) *)

\* C24: after an administrator update that changes the tier, the tenant's
\* start date is the supplied one or else now, and its end date is the
\* supplied one or else the one a payment confirmed at the start date would
\* give for the tier (thirty days after the start date for a trial)
C24_AdminTierChangeDates ==
    [][(/\ resp'.op = "adminSubscription"
        /\ resp'.code = 200
        /\ Val(resp'.request).subscriptionType # users[Val(resp'.id)].subscriptionType)
        => LET body == Val(resp'.request)
               u == users'[Val(resp'.id)]
               start == IF Has(body.subscriptionStartDate)
                        THEN Val(body.subscriptionStartDate) ELSE now
               end == IF Has(body.subscriptionEndDate)
                      THEN Val(body.subscriptionEndDate)
                      ELSE IF body.subscriptionType = "trial"
                      THEN start + TrialDays * TicksPerDay
                      ELSE TierEndDate(body.subscriptionType, start)
           IN  IF body.subscriptionType = "trial"
               THEN u.trialStartDate = Some(start) /\ u.trialEndDate = Some(end)
               ELSE u.subscriptionStartDate = Some(start)
                        /\ u.subscriptionEndDate = Some(end)
       ]_vars


-----------------------------------------------------------------------------
(* Properties of the scheduled job (SpecSweep) *)

\* the delivery reminders of an order
Reminders(id) ==
    {n \in DOMAIN notifications :
        notifications[n].type = "delivery_reminder" /\ notifications[n].orderId = id}

\* C25: over any number of runs of the job, sequential or overlapping and
\* with failed saves, an order is moved to in_progress at most once and ends
\* with exactly one delivery reminder: no order ever has two reminders, and
\* when no run is in progress every order the job has moved has one
C25_MovedOnceWithOneReminder ==
    /\ \A id \in DOMAIN orders : Cardinality(Reminders(id)) <= 1
    /\ tasks = <<>> =>
         \A id \in DOMAIN orders :
            orders[id].status = "in_progress" => Cardinality(Reminders(id)) = 1


-----------------------------------------------------------------------------
(* Properties of the notifications router (SpecNotifications) *)

\* C26: PUT /api/notifications/mark-all-read from a tenant is handled by the
\* mark-all-read handler: every unread notification of the tenant becomes
\* read and every other notification is unchanged
C26_MarkAllReadIsRouted ==
    [][(/\ resp'.op \in {"putNotification", "markAllRead"}
        /\ resp'.request = Some("mark-all-read")
        /\ Has(resp'.user))
        => /\ resp'.op = "markAllRead"
           /\ DOMAIN notifications' = DOMAIN notifications
           /\ \A id \in DOMAIN notifications :
                notifications'[id] =
                    IF notifications[id].userId = Val(resp'.user)
                    THEN [notifications[id] EXCEPT !.read = TRUE]
                    ELSE notifications[id]]_vars


-----------------------------------------------------------------------------
(* Properties of the phone validation (SpecPhones) *)

\* C27: a request of any router whose phone does not have exactly 11 digits
\* after stripping is answered 400 (a validation error, not the 404 of an
\* absent tenant) and changes no stored record
C27_MalformedPhoneIsValidationError ==
    [][(\E phone \in MalformedPhones :
            \/ resp'.kind = "users" /\ AccountRequest(phone)
            \/ resp'.kind = "customers" /\ CustomerRequest(phone)
            \/ resp'.kind = "orders" /\ OrderRequest(phone)
            \/ resp'.kind = "measurements" /\ MeasurementRequest(phone)
            \/ resp'.kind = "notifications" /\ NotificationRequest(phone))
        => resp'.code = 400 /\ UNCHANGED <<users, records, blobs>>]_vars

-----------------------------------------------------------------------------
(* Properties of the interleaved status query and payment (SpecInterleaved) *)

\* C28: however a status query and a payment confirmation for the same
\* tenant interleave, once both have answered the tenant is not expired with
\* a subscriptionEndDate after now
C28_NoExpiredWithFutureEndDate ==
    tasks = <<>> =>
        \A id \in DOMAIN users :
            ~(/\ users[id].subscriptionStatus = "expired"
              /\ Has(users[id].subscriptionEndDate)
              /\ Val(users[id].subscriptionEndDate) > now)


-----------------------------------------------------------------------------
(* Properties of the deletion interleaved with creates (SpecRace) *)

\* the records whose owner is not in the tenant directory
Orphans(coll) == {id \in DOMAIN coll : coll[id].userId \notin DOMAIN users}

\* C29: however an account deletion and the tenant's create requests
\* interleave, no customer, order, measurement or notification is owned by a
\* tenant that is absent from the directory
C29_NoRecordOfAnAbsentTenant ==
    /\ Orphans(customers) = {}
    /\ Orphans(orders) = {}
    /\ Orphans(measurements) = {}
    /\ Orphans(notifications) = {}


-----------------------------------------------------------------------------
(* Properties of the profile image upload (SpecUpload) *)

\* C30: after an upload request, whether it succeeded or failed, no tenant's
\* stored profileImage names an object that the request removed from the
\* bucket
C30_NoReferenceToADeletedBlob ==
    [][resp'.op = "uploadProfileImage"
        => \A id \in DOMAIN users' :
              Has(users'[id].profileImage)
                 => Val(users'[id].profileImage)[2] \notin blobs \ blobs']_vars

=============================================================================
